---------------------------- MODULE Spec2Model ----------------------------
(***************************************************************************)
(* DJ Basin investment model: yield-curve generation, price simulation,    *)
(* cash flows, IRR solving and the Monte Carlo attribution loop.           *)
(*                                                                         *)
(* Numbers.  The program computes in binary floating point.  Here every    *)
(* real quantity is a fixed-point integer: yields, price factors, rates,   *)
(* decline parameters and shocks are counted in units of 1/Scale, cash in  *)
(* units of 1/CashScale $MM.  Products and quotients are rounded to the    *)
(* nearest unit (MulDiv), as a floating-point operation rounds to the      *)
(* nearest representable value.  An absent value (Python's None) is the    *)
(* empty tuple and a present value v is the one-element tuple <<v>>.       *)
(***************************************************************************)
EXTENDS Integers, Sequences, FiniteSets, TLC

\* ------------------------------------------------------------- arithmetic
Scale == 10^6          \* units per 1.0 of a yield, price factor or rate
CashScale == 10^4      \* units per $MM
MaxInt == 2^30 - 1 + 2^30    \* the largest integer of the checker's arithmetic

None == <<>>
Some(v) == <<v>>
IsNone(x) == x = <<>>
Val(x) == x[1]

Abs(x) == IF x < 0 THEN -x ELSE x
Sign(x) == IF x < 0 THEN -1 ELSE 1
Max(a, b) == IF a >= b THEN a ELSE b
Min(a, b) == IF a <= b THEN a ELSE b

\* Loops are written as locally defined recursive functions.
Gcd(a, b) ==
    LET g[p \in Nat \X Nat] == IF p[2] = 0 THEN p[1] ELSE g[<<p[2], p[1] % p[2]>>]
    IN  g[<<a, b>>]

SumSeq(s) ==
    LET acc[i \in 0..Len(s)] == IF i = 0 THEN 0 ELSE acc[i - 1] + s[i]
    IN  acc[Len(s)]

\* <<q, r>> with a * b = q * c + r and 0 <= r < c, for 0 <= a < c, b >= 0,
\* computed without forming a * b (which may not fit a machine integer):
\* b is taken one digit of base D at a time, D chosen so 2 * c * D fits.
MulQR(a, b, c, D) ==
    LET qr[bb \in Nat] ==
            IF bb = 0 THEN <<0, 0>>
            ELSE LET h == qr[bb \div D]
                     t == h[2] * D + a * (bb % D)
                 IN  <<h[1] * D + t \div c, t % c>>
    IN  qr[b]

\* The same for a c too large to double: one bit of b at a time.
MulQRBin(a, b, c) ==
    LET qr[bb \in Nat] ==
            IF bb = 0 THEN <<0, 0>>
            ELSE LET h  == qr[bb \div 2]
                     dq == IF h[2] >= c - h[2] THEN 2 * h[1] + 1 ELSE 2 * h[1]
                     dr == IF h[2] >= c - h[2] THEN h[2] - (c - h[2]) ELSE 2 * h[2]
                 IN  IF bb % 2 = 0 THEN <<dq, dr>>
                     ELSE IF dr >= c - a THEN <<dq + 1, dr - (c - a)>>
                          ELSE <<dq, dr + a>>
    IN  qr[b]

\* a * b / c rounded to the nearest integer, for a, b >= 0 and c > 0.
RoundQR(qr, c) == IF qr[2] >= c - c \div 2 THEN qr[1] + 1 ELSE qr[1]

MulDivBig(a, b, c, D) ==
    (a \div c) * b + RoundQR(IF D >= 2 THEN MulQR(a % c, b, c, D)
                                      ELSE MulQRBin(a % c, b, c), c)

MulDivNat(a, b, c) ==
    IF a = 0 \/ b <= (MaxInt - c) \div a
    THEN (a * b + c \div 2) \div c
    ELSE MulDivBig(a, b, c, MaxInt \div (2 * Min(c, MaxInt \div 2)))

\* a * b / c for integers of either sign, rounded to the nearest integer
\* (half away from zero), c # 0.
MulDiv(a, b, c) ==
    Sign(a) * Sign(b) * Sign(c) * MulDivNat(Abs(a), Abs(b), Abs(c))

\* x * y and x / y of two fixed-point numbers of scale Scale.
FMul(x, y) == MulDiv(x, y, Scale)
FDiv(x, y) == MulDiv(x, Scale, y)

\* x ** n for a fixed-point x and an integer n >= 0.
PowFix(x, n) ==
    LET pw[k \in 0..n] == IF k = 0 THEN Scale ELSE FMul(pw[k - 1], x)
    IN  pw[n]

\* y ** n for y >= 0, or something above cap when y ** n is above cap: the
\* further powers of a y >= 1 that has overshot cap are not formed.
PowCap(y, n, cap) ==
    LET pw[k \in 0..n] ==
            IF k = 0 THEN Scale
            ELSE LET p == pw[k - 1]
                 IN  IF p > cap /\ y >= Scale THEN p ELSE FMul(p, y)
    IN  pw[n]

\* The largest k of ks.
MaxOf(ks) == CHOOSE m \in ks : \A n \in ks : n <= m

\* The q-th root of a fixed-point x >= 0: the largest y with
\* y ** q <= x, found one decimal digit at a time.
RootFix(x, q) ==
    LET digits[p \in Nat \X Nat] ==    \* p = <<lo, step>>
            IF p[2] = 0 THEN p[1]
            ELSE LET k == MaxOf({j \in 0..9 : PowCap(p[1] + j * p[2], q, x) <= x})
                 IN  digits[<<p[1] + k * p[2], p[2] \div 10>>]
        k0 == MaxOf({j \in 0..(x \div Scale) : PowCap(j * Scale, q, x) <= x})
    IN  IF q = 1 THEN x ELSE digits[<<k0 * Scale, Scale \div 10>>]

\* x ** (1 / b) for fixed-point x >= Scale and b > 0: 1/b is the fraction
\* p/q in lowest terms, and x ** (p/q) is (x ** (1/q)) ** p.
PowInv(x, b) ==
    LET g == Gcd(Scale, b)
    IN  PowFix(RootFix(x, b \div g), Scale \div g)

\* ------------------------------------------------------------ config.py
CO_INVEST_MM == 195 * CashScale
TOTAL_EQUITY_MM == 710 * CashScale
GA_RATE == 7500
TOTAL_NAV_MM == (691 + 123 + 39 + 91 + 108) * CashScale
REMAINING_RESERVES_PCT == 150000
YIELD_Y1 == 269000
YIELD_Y2 == 266000
YIELD_Y3 == 251000
AVG_10Y_YIELD == 186000
base_b_factor == 900000
base_Di == 250000

\* --------------------------------------------------------- yield_curve.py
VARIABLES BASE_YIELD_SUM,   \* the module global: None or the last calibrated sum
          yc_args,          \* <<b_factor, Di, calibrate_base>> of the last call
          yc_ret,           \* the curve the last call returned
          yc_before,        \* the value of the global when the last call began
          yc_ref            \* an earlier call kept for comparison: None or
                            \* <<[args, curve, before]>>

TailYears == 7
YieldFloor == 30000

\* Years 4-10: Arps hyperbolic decline from Year 3, floored at 3%.
ArpsRaw(b_factor, Di, t) ==
    FDiv(YIELD_Y3, PowInv(Scale + FMul(b_factor, Di) * t, b_factor))

\* A variant of ArpsTail without the economic-limit floor.
ArpsTailUnfloored(b_factor, Di) ==
    [t \in 1..TailYears |-> ArpsRaw(b_factor, Di, t)]

ArpsTail(b_factor, Di) ==
    LET app[t \in 0..TailYears] ==      \* tail_yields after t appends
            IF t = 0 THEN <<>>
            ELSE Append(app[t - 1], Max(ArpsRaw(b_factor, Di, t), YieldFloor))
    IN  app[TailYears]

\* The decline parameters the callers of this model pass; their tails are
\* computed once.
BValues == {300000, 500000, 700000, 900000, 1200000}
DiValues == {100000, 250000, 450000}
TailTable == {<<bd, ArpsTail(bd[1], bd[2])>> : bd \in BValues \X DiValues}

tail_yields_of(b_factor, Di) ==
    IF \E e \in TailTable : e[1] = <<b_factor, Di>>
    THEN (CHOOSE e \in TailTable : e[1] = <<b_factor, Di>>)[2]
    ELSE ArpsTail(b_factor, Di)

\* A variant of calibrated_tail that scales the tail to the whole target
\* instead of to what Years 1-3 leave of it.
calibrated_tail_total(base_yields, tail_yields) ==
    [t \in 1..Len(tail_yields) |->
        FMul(tail_yields[t], FDiv(AVG_10Y_YIELD * 10, SumSeq(tail_yields)))]

\* Lines 70-80: the tail rescaled so that the ten yields sum to the target.
calibrated_tail(base_yields, tail_yields) ==
    LET target_sum == AVG_10Y_YIELD * 10
        known_sum == SumSeq(base_yields)
        remaining_target == target_sum - known_sum
        tail_sum == SumSeq(tail_yields)
        scale == FDiv(remaining_target, tail_sum)
    IN  IF tail_sum > 0
        THEN <<>> \o [t \in 1..Len(tail_yields) |-> FMul(tail_yields[t], scale)]
        ELSE tail_yields

\* A variant of curve_result that stores the sum of every curve it returns,
\* calibrated or not.
curve_result_stored(calibrate, base_yields, tail, base_sum) ==
    [curve |-> base_yields \o tail,
     base_yield_sum |-> Some(SumSeq(base_yields \o tail))]

\* Lines 68-84 once the branch is decided: the returned curve and the value
\* the global BASE_YIELD_SUM has afterwards (base_sum is its value before).
curve_result(calibrate, base_yields, tail, base_sum) ==
    [curve |-> base_yields \o tail,
     base_yield_sum |-> IF calibrate THEN Some(SumSeq(base_yields \o tail))
                        ELSE base_sum]

is_base_case(b_factor, Di) == b_factor = base_b_factor /\ Di = base_Di

\* Variants of calibrate_or_raw with another condition for the calibration:
\* the b-factor alone decides the base case; only an explicit request
\* calibrates; every call after a calibration calibrates.
calibrate_on_b(b_factor, Di, base_yields, tail_yields, calibrate_base, base_sum) ==
    IF b_factor = base_b_factor \/ calibrate_base
    THEN curve_result(TRUE, base_yields, calibrated_tail(base_yields, tail_yields),
                      base_sum)
    ELSE curve_result(FALSE, base_yields, tail_yields, base_sum)

calibrate_on_request(b_factor, Di, base_yields, tail_yields, calibrate_base, base_sum) ==
    IF calibrate_base
    THEN curve_result(TRUE, base_yields, calibrated_tail(base_yields, tail_yields),
                      base_sum)
    ELSE curve_result(FALSE, base_yields, tail_yields, base_sum)

calibrate_once_calibrated(b_factor, Di, base_yields, tail_yields, calibrate_base, base_sum) ==
    IF is_base_case(b_factor, Di) \/ calibrate_base \/ ~IsNone(base_sum)
    THEN curve_result(TRUE, base_yields, calibrated_tail(base_yields, tail_yields),
                      base_sum)
    ELSE curve_result(FALSE, base_yields, tail_yields, base_sum)

\* Lines 62-84 for the tail computed by lines 56-60.
calibrate_or_raw(b_factor, Di, base_yields, tail_yields, calibrate_base, base_sum) ==
    IF is_base_case(b_factor, Di) \/ calibrate_base
    THEN curve_result(TRUE, base_yields, calibrated_tail(base_yields, tail_yields),
                      base_sum)
    ELSE curve_result(FALSE, base_yields, tail_yields, base_sum)

\* generate_hyperbolic_yield_curve with its parameter defaults resolved.
hyperbolic_yield_curve(b_factor, Di, calibrate_base, base_sum) ==
    calibrate_or_raw(b_factor, Di, <<YIELD_Y1, YIELD_Y2, YIELD_Y3>>,
                     tail_yields_of(b_factor, Di), calibrate_base, base_sum)

generate_hyperbolic_yield_curve(b_arg, Di_arg, calibrate_base, base_sum) ==
    hyperbolic_yield_curve(IF IsNone(b_arg) THEN base_b_factor ELSE Val(b_arg),
                           IF IsNone(Di_arg) THEN base_Di ELSE Val(Di_arg),
                           calibrate_base, base_sum)

\* Lines 87-89: the value of the global as its reader reports it.
get_base_yield_sum == BASE_YIELD_SUM

\* The arguments the modelled callers pass (None: the argument is omitted).
CurveBArgs == {None, Some(500000), Some(900000)}
CurveDiArgs == {None, Some(250000), Some(450000)}

CurveVars == <<BASE_YIELD_SUM, yc_args, yc_ret, yc_before, yc_ref>>

CurveInit ==
    /\ BASE_YIELD_SUM = None
    /\ yc_args = None
    /\ yc_ret = None
    /\ yc_before = None
    /\ yc_ref = None

\* One call of generate_hyperbolic_yield_curve by some caller; the caller
\* may keep the call and its result to compare a later call with.
CallCurve ==
    \E b \in CurveBArgs, di \in CurveDiArgs, cal \in BOOLEAN, keep \in BOOLEAN :
        \E r \in {generate_hyperbolic_yield_curve(b, di, cal, BASE_YIELD_SUM)} :
            /\ yc_args' = <<b, di, cal>>
            /\ yc_ret' = r.curve
            /\ yc_before' = BASE_YIELD_SUM
            /\ BASE_YIELD_SUM' = r.base_yield_sum
            /\ yc_ref' = IF keep
                         THEN Some([args |-> <<b, di, cal>>, curve |-> r.curve,
                                    before |-> BASE_YIELD_SUM])
                         ELSE yc_ref

\* ---------------------------------------------------------- cash_flows.py
CO_INVEST_SHARE == MulDiv(CO_INVEST_MM, Scale, TOTAL_EQUITY_MM)

\* A variant of nav_multiple whose bands exclude their threshold.
nav_multiple_exclusive(year_10_price_factor) ==
    IF year_10_price_factor > 900000 THEN 950000
    ELSE IF year_10_price_factor > 700000 THEN 850000
    ELSE IF year_10_price_factor > 500000 THEN 750000
    ELSE 600000

nav_multiple(year_10_price_factor) ==
    IF year_10_price_factor >= 900000 THEN 950000
    ELSE IF year_10_price_factor >= 700000 THEN 850000
    ELSE IF year_10_price_factor >= 500000 THEN 750000
    ELSE 600000

estimate_terminal_value(year_10_price_factor) ==
    FMul(FMul(FMul(FMul(TOTAL_NAV_MM, REMAINING_RESERVES_PCT),
                   year_10_price_factor),
              nav_multiple(year_10_price_factor)),
         CO_INVEST_SHARE)

\* A variant of annual_cf that deducts G&A in the first year only.
annual_cf_ga_once(year, base_yield, price_factor, include_ga) ==
    FMul(FMul(CO_INVEST_MM, base_yield), price_factor)
    - (IF include_ga /\ year = 0 THEN FMul(CO_INVEST_MM, GA_RATE) ELSE 0)
    + (IF year = 9 THEN estimate_terminal_value(price_factor) ELSE 0)

\* The loop body of build_cash_flows for the 0-based index year.
annual_cf(year, base_yield, price_factor, include_ga) ==
    FMul(FMul(CO_INVEST_MM, base_yield), price_factor)
    - (IF include_ga THEN FMul(CO_INVEST_MM, GA_RATE) ELSE 0)
    + (IF year = 9 THEN estimate_terminal_value(price_factor) ELSE 0)

build_cash_flows(yield_curve, price_factors_by_year, include_ga) ==
    <<-CO_INVEST_MM>> \o
        [i \in 1..Min(Len(yield_curve), Len(price_factors_by_year)) |->
            annual_cf(i - 1, yield_curve[i], price_factors_by_year[i], include_ga)]

max_iterations == 100
initial_guess == 100000
\* The convergence tolerance, in rate units.  The program's 1e-8 lies far
\* above the rounding of its arithmetic, so a step falls below it as soon as
\* the iteration has settled; the arithmetic here rounds to one unit, and a
\* settled iteration moves by at most one unit.
tolerance == 2
\* 1e-10 $MM is less than one cash unit: |f_prime| < 1e-10 is f_prime = 0.
min_derivative == 1
band_low == -990000
band_high == 2000000

\* cf / (1 + rate) ** t with one = 1 + rate # 0, as t successive divisions
\* (the power itself, or its reciprocal, need not fit the grid).
discounted(cf, one, t) ==
    LET dv[k \in 0..t] == IF k = 0 THEN cf ELSE MulDiv(dv[k - 1], Scale, one)
    IN  dv[t]

npv(rate, cfs) ==
    LET acc[i \in 0..Len(cfs)] ==
            IF i = 0 THEN 0
            ELSE acc[i - 1] + discounted(cfs[i], Scale + rate, i - 1)
    IN  acc[Len(cfs)]

npv_derivative(rate, cfs) ==
    LET acc[i \in 0..Len(cfs)] ==
            IF i = 0 THEN 0
            ELSE acc[i - 1] + discounted(-(i - 1) * cfs[i], Scale + rate, i)
    IN  acc[Len(cfs)]

\* The state of the Newton loop is [rate, exit]: exit is "run" while the loop
\* goes on, "converged" after the return of line 109, "break" after the break
\* of line 104 and "raise" when a division by zero has left the function.
\* A variant of newton_move with a tolerance a thousand times as wide.
newton_move_loose(st, new_rate) ==
    IF Abs(new_rate - st.rate) < 1000 * tolerance
    THEN [rate |-> new_rate, exit |-> "converged"]
    ELSE [rate |-> new_rate, exit |-> "run"]

newton_move(st, new_rate) ==
    IF Abs(new_rate - st.rate) < tolerance
    THEN [rate |-> new_rate, exit |-> "converged"]
    ELSE [rate |-> new_rate, exit |-> "run"]

newton_update(st, f, f_prime) ==
    IF Abs(f_prime) < min_derivative
    THEN [st EXCEPT !.exit = "break"]
    ELSE newton_move(st, st.rate - MulDiv(f, Scale, f_prime))

\* One pass of the loop body, lines 100-111.  (1 + rate) ** t is 0.0 only
\* for rate = -1.0, and cf / 0.0 raises ZeroDivisionError.
newton_step(cfs, st) ==
    IF st.exit # "run" THEN st
    ELSE IF Scale + st.rate = 0 /\ cfs # <<>> THEN [st EXCEPT !.exit = "raise"]
    ELSE newton_update(st, npv(st.rate, cfs), npv_derivative(st.rate, cfs))

\* n passes of the loop body from state st: the first half of them, then
\* the rest from the state they end in.
newton_loop(cfs, st, n) ==
    LET lp[a \in [rate : Int, exit : {"run", "converged", "break", "raise"}] \X Nat] ==
            IF a[2] = 0 THEN a[1]
            ELSE IF a[2] = 1 THEN newton_step(cfs, a[1])
            ELSE lp[<<lp[<<a[1], a[2] \div 2>>], a[2] - a[2] \div 2>>]
    IN  lp[<<st, n>>]

\* What calculate_irr hands back after the loop was left in state st: the
\* exit taken ("cap" when all max_iterations passes ran) and the value
\* returned, None when it raised.
irr_return(st) ==
    IF st.exit = "converged" THEN [exit |-> "converged", ret |-> Some(st.rate)]
    ELSE IF st.exit = "raise" THEN [exit |-> "raise", ret |-> None]
    ELSE [exit |-> IF st.exit = "run" THEN "cap" ELSE "break",
          ret |-> IF band_low < st.rate /\ st.rate < band_high
                  THEN Some(st.rate) ELSE None]

calculate_irr(cfs) ==
    irr_return(newton_loop(cfs, [rate |-> initial_guess, exit |-> "run"],
                           max_iterations))

\* sum(cfs[1:]) / abs(cfs[0]), for cfs[0] # 0.
\* A variant of calculate_roi that counts Year 0 among the returns.
calculate_roi_net(cfs) == FDiv(SumSeq(cfs), Abs(cfs[1]))

calculate_roi(cfs) == FDiv(SumSeq(Tail(cfs)), Abs(cfs[1]))

VARIABLES irr_cfs,    \* the series of the last call of calculate_irr, or None
          irr_ret,    \* what that call returned: None or <<rate>>
          irr_exit    \* how that call left the loop

\* The series calculate_irr is called with, in $MM: an outlay followed by one
\* or two yearly receipts, and degenerate series.
IrrOutlays == {-195, -100}
IrrYear1 == {80, 120, 140, 180, 200, 220, 240, 280, 300, 600}
IrrYear2 == {0, 40, 60, 80, 140, 200}
IrrSeries ==
    {<<a * CashScale, b * CashScale>> : a \in IrrOutlays, b \in IrrYear1}
    \cup {<<a * CashScale, b * CashScale, c * CashScale>> :
             a \in IrrOutlays, b \in IrrYear1, c \in IrrYear2}
    \cup {<<>>, <<0>>, <<0, 0>>, <<0, 0, 0>>, <<-66000, 36300>>}

\* -------------------------------------------- stochastic_decline_curve.py
\* A variant of clip that forgets the upper bound.
clip_from_below(x, lo, hi) == Max(x, lo)

clip(x, lo, hi) == Min(Max(x, lo), hi)

classify(b_factor) ==
    IF b_factor < 500000 THEN "Severe Steepening"
    ELSE IF b_factor < 700000 THEN "Moderate Steepening"
    ELSE IF b_factor > 1000000 THEN "Flatter than Expected"
    ELSE "Near Type Curve"

decline_draw(b_factor, Di) ==
    [b_factor |-> b_factor, Di |-> Di, curve_label |-> classify(b_factor)]

\* b_shock and Di_shock are the two normal draws of the stochastic branch.
simulate_decline_curve_risk(stochastic, b_shock, Di_shock) ==
    IF stochastic
    THEN decline_draw(clip(base_b_factor + b_shock, 300000, 1200000),
                      clip(base_Di + Di_shock, 100000, 450000))
    ELSE [b_factor |-> base_b_factor, Di |-> base_Di, curve_label |-> "Base Case"]

\* The normal draws a trial takes: none, moderate ones, and ones the clip
\* cuts back to the physical bounds.
BShocks == {-720000, -200000, 0, 360000}
DiShocks == {-200000, 0, 250000}

\* ------------------------------------------ commodity_price_simulation.py
VARIABLES ps_args,      \* [years, sims] of the call, None before it
          ps_prices,    \* the dict prices of the trial in progress, or None
          ps_shocks,    \* the vectors z drawn in the trial in progress
          ps_results    \* the dict results

PriceFloor == 200000
mu == [oil |-> Scale, gas |-> Scale, ngl |-> Scale]
theta == [oil |-> 300000, gas |-> 500000, ngl |-> 350000]
sigma == [oil |-> 250000, gas |-> 450000, ngl |-> 300000]
PRICE_CORRELATION ==
    << <<Scale, 350000, 750000>>,
       <<350000, Scale, 400000>>,
       <<750000, 400000, Scale>> >>
COMMODITY_MIX == [oil |-> 320000, gas |-> 400000, ngl |-> 280000]
commodities == <<"oil", "gas", "ngl">>

\* sum of a[k] * b[k] for k in 1..n
Dot(a, b, n) ==
    LET acc[k \in 0..n] == IF k = 0 THEN 0 ELSE acc[k - 1] + FMul(a[k], b[k])
    IN  acc[n]

\* np.linalg.cholesky: the lower-triangular L with L L^T = A.
cholesky(A) ==
    LET n == Len(A)
        L[ij \in (1..n) \X (1..n)] ==
            IF ij[2] > ij[1] THEN 0
            ELSE IF ij[1] = ij[2]
            THEN RootFix(A[ij[1]][ij[1]]
                         - Dot([k \in 1..n |-> L[<<ij[1], k>>]],
                               [k \in 1..n |-> L[<<ij[1], k>>]], ij[1] - 1), 2)
            ELSE FDiv(A[ij[1]][ij[2]]
                      - Dot([k \in 1..n |-> L[<<ij[1], k>>]],
                            [k \in 1..n |-> L[<<ij[2], k>>]], ij[2] - 1),
                      L[<<ij[2], ij[2]>>])
    IN  [i \in 1..n |-> [j \in 1..n |-> L[<<i, j>>]]]

chol == cholesky(PRICE_CORRELATION)

\* enumerate(['oil', 'gas', 'ngl'])
index_of(commodity) == CHOOSE i \in 1..3 : commodities[i] = commodity

\* chol @ z
corr_shocks(z) == [i \in 1..3 |-> Dot(chol[i], z, 3)]

\* current_price + drift + diffusion, with dt = 1
ou_unfloored(commodity, current_price, corr_z_i) ==
    current_price + FMul(theta[commodity], mu[commodity] - current_price)
                  + FMul(sigma[commodity], corr_z_i)

\* A variant of ou_step without the floor.
ou_step_unfloored(commodity, current_price, corr_z_i) ==
    ou_unfloored(commodity, current_price, corr_z_i)

\* new_price of line 85
ou_step(commodity, current_price, corr_z_i) ==
    Max(PriceFloor, ou_unfloored(commodity, current_price, corr_z_i))

Last(s) == s[Len(s)]

\* np.mean
Mean(s) == MulDiv(SumSeq(s), 1, Len(s))

\* A variant of blended_path_of that blends from the starting value on.
blended_path_from_start(prices, years) ==
    [t \in 1..years |->
        FMul(COMMODITY_MIX.oil, prices.oil[t])
        + FMul(COMMODITY_MIX.gas, prices.gas[t])
        + FMul(COMMODITY_MIX.ngl, prices.ngl[t])]

blended_path_of(prices, years) ==
    [t \in 1..years |->
        FMul(COMMODITY_MIX.oil, prices.oil[t + 1])
        + FMul(COMMODITY_MIX.gas, prices.gas[t + 1])
        + FMul(COMMODITY_MIX.ngl, prices.ngl[t + 1])]

\* The arguments and the standard-normal draws of the modelled calls.
MaxYears == 2
MaxSims == 1
ZVectors ==
    {<<z[1] * Scale, z[2] * Scale, z[3] * Scale>> :
        z \in {<<-3, -3, -3>>, <<1, 1, 1>>, <<0, 0, 0>>, <<-3, 1, -3>>,
               <<1, -3, 1>>, <<2, 0, -1>>, <<-1, 2, 0>>}}

PriceVars == <<ps_args, ps_prices, ps_shocks, ps_results>>

PriceInit ==
    /\ ps_args = None
    /\ ps_prices = None
    /\ ps_shocks = <<>>
    /\ ps_results = [oil |-> <<>>, gas |-> <<>>, ngl |-> <<>>,
                     blended_avg |-> <<>>, blended_paths |-> <<>>]

\* The call: lines 12-53.
CallSimulate ==
    /\ ps_args = None
    /\ \E years \in 1..MaxYears, sims \in 1..MaxSims :
           ps_args' = Some([years |-> years, sims |-> sims])
    /\ ps_results' = [oil |-> <<>>, gas |-> <<>>, ngl |-> <<>>,
                      blended_avg |-> <<>>, blended_paths |-> <<>>]
    /\ UNCHANGED <<ps_prices, ps_shocks>>

\* Lines 55-61: a trial begins with every price list at [1.0].
StartTrial ==
    /\ ps_args # None
    /\ ps_prices = None
    /\ Len(ps_results.blended_avg) < Val(ps_args).sims
    /\ ps_prices' = Some([oil |-> <<Scale>>, gas |-> <<Scale>>, ngl |-> <<Scale>>])
    /\ ps_shocks' = <<>>
    /\ UNCHANGED <<ps_args, ps_results>>

\* Lines 64-86: one year of the trial, all three commodities.
YearStep ==
    /\ ps_prices # None
    /\ Len(ps_shocks) < Val(ps_args).years
    /\ \E z \in ZVectors :
         \E corr_z \in {corr_shocks(z)} :
           /\ ps_prices' = Some(
                 [c \in {"oil", "gas", "ngl"} |->
                     Append(Val(ps_prices)[c],
                            ou_step(c, Last(Val(ps_prices)[c]),
                                    corr_z[index_of(c)]))])
           /\ ps_shocks' = Append(ps_shocks, z)
    /\ UNCHANGED <<ps_args, ps_results>>

\* Lines 88-103: the trial's blended path and averages are stored.
FinishTrial ==
    /\ ps_prices # None
    /\ Len(ps_shocks) = Val(ps_args).years
    /\ \E bp \in {blended_path_of(Val(ps_prices), Val(ps_args).years)} :
         ps_results' =
             [oil |-> Append(ps_results.oil, Mean(Tail(Val(ps_prices).oil))),
              gas |-> Append(ps_results.gas, Mean(Tail(Val(ps_prices).gas))),
              ngl |-> Append(ps_results.ngl, Mean(Tail(Val(ps_prices).ngl))),
              blended_avg |-> Append(ps_results.blended_avg, Mean(bp)),
              blended_paths |-> Append(ps_results.blended_paths, bp)]
    /\ ps_prices' = None
    /\ UNCHANGED <<ps_args, ps_shocks>>

\* --------------------------------------------------------------- analysis.py
VARIABLES price_sims,        \* the argument price_sims of run_monte_carlo
          mc_i,              \* trials completed
          mc_locals,         \* the locals of the last trial, None before it
          mc_draws,          \* the (b_factor, Di) drawn in each trial so far
          sim_irrs, sim_rois, sim_profits, sim_b_factors, sim_prices,
          risk_attribution

\* The blended price paths handed to run_monte_carlo: strip prices, half of
\* strip, a late price spike, and a path on which the base-case curve
\* returns exactly the outlay.
Flat(p) == [t \in 1..10 |-> p]
LateSpike ==
    [t \in 1..10 |-> IF t \in 7..9 THEN 2 * Scale ELSE IF t = 10 THEN 200000 ELSE 300000]
BreakEven == [t \in 1..10 |-> IF t = 10 THEN 533179 ELSE 530000]
PricePaths == {Flat(Scale), Flat(500000), LateSpike, BreakEven}

NumSims == 2

\* The curves and cash flows the trials can meet.
DeclineDraws ==
    {simulate_decline_curve_risk(TRUE, b_shock, Di_shock) :
        b_shock \in BShocks, Di_shock \in DiShocks}
McCashFlows ==
    {build_cash_flows(hyperbolic_yield_curve(d.b_factor, d.Di, FALSE, None).curve,
                      p, TRUE) : d \in DeclineDraws, p \in PricePaths}

\* --------------------------------------------------- test_delay_scenarios.py
VARIABLES dl_scenario,    \* [curve, prices] under study, None before a choice
          dl_delay,       \* delay_years of the last evaluation
          dl_irr,         \* the IRR of the last evaluation
          dl_prev         \* None or <<[delay, irr]>> of the evaluation before

PDP_SHARE == MulDiv(691 * CashScale, Scale, TOTAL_NAV_MM)
NON_PDP_SHARE == Scale - PDP_SHARE
Horizon == 10

\* A variant of delayed_non_pdp without the spillover of the year before.
delayed_non_pdp_no_spillover(non_pdp_yields, whole_years, fractional_year, target_year) ==
    IF target_year - whole_years < 0 THEN 0
    ELSE IF target_year - whole_years < Len(non_pdp_yields)
    THEN FMul(non_pdp_yields[target_year - whole_years + 1], Scale - fractional_year)
    ELSE 0

\* A variant of delayed_non_pdp with the two weights exchanged.
delayed_non_pdp_swapped(non_pdp_yields, whole_years, fractional_year, target_year) ==
    IF target_year - whole_years < 0 THEN 0
    ELSE (IF target_year - whole_years < Len(non_pdp_yields)
          THEN FMul(non_pdp_yields[target_year - whole_years + 1], fractional_year)
          ELSE 0)
         + (IF target_year - whole_years >= 1
               /\ target_year - whole_years - 1 < Len(non_pdp_yields)
            THEN FMul(non_pdp_yields[target_year - whole_years],
                      Scale - fractional_year)
            ELSE 0)

\* delayed_non_pdp[target_year] of the loop of lines 107-139
delayed_non_pdp(non_pdp_yields, whole_years, fractional_year, target_year) ==
    IF target_year - whole_years < 0 THEN 0
    ELSE IF target_year - whole_years = 0
    THEN FMul(non_pdp_yields[1], Scale - fractional_year)
    ELSE (IF target_year - whole_years < Len(non_pdp_yields)
          THEN FMul(non_pdp_yields[target_year - whole_years + 1],
                    Scale - fractional_year)
          ELSE 0)
         + (IF target_year - whole_years - 1 < Len(non_pdp_yields)
            THEN FMul(non_pdp_yields[target_year - whole_years], fractional_year)
            ELSE 0)

\* A variant of delay_non_pdp_yields that shifts the whole yield, PDP included.
delay_whole_yields(base_yields, delay_years) ==
    IF delay_years <= 0 THEN base_yields
    ELSE IF delay_years >= Horizon * Scale
    THEN [t \in 1..Len(base_yields) |-> FMul(base_yields[t], PDP_SHARE)]
    ELSE [t \in 1..Horizon |->
             delayed_non_pdp(base_yields, delay_years \div Scale, delay_years % Scale,
                             t - 1)]

delay_non_pdp_yields(base_yields, delay_years) ==
    IF delay_years <= 0 THEN base_yields
    ELSE IF delay_years >= Horizon * Scale
    THEN [t \in 1..Len(base_yields) |-> FMul(base_yields[t], PDP_SHARE)]
    ELSE [t \in 1..Horizon |->
             FMul(base_yields[t], PDP_SHARE)
             + delayed_non_pdp([k \in 1..Len(base_yields) |->
                                    FMul(base_yields[k], NON_PDP_SHARE)],
                               delay_years \div Scale, delay_years % Scale, t - 1)]

\* The delays studied: every half year from none to the whole horizon.
DelayStep == Scale \div 2
Delays == {k * DelayStep : k \in 0..((Horizon * Scale) \div DelayStep)}
Rising == [t \in 1..10 |-> IF t <= 5 THEN 200000 ELSE 2 * Scale]
DelayCurves == {hyperbolic_yield_curve(base_b_factor, base_Di, FALSE, None).curve,
                hyperbolic_yield_curve(500000, base_Di, FALSE, None).curve}
Falling == [t \in 1..10 |-> IF t <= 5 THEN 1500000 ELSE 500000]
DelayPaths == {Flat(Scale), Rising, Falling}
DelayScenarios == [curve : DelayCurves, prices : DelayPaths]
delayed_cash_flows(sc, delay_years) ==
    build_cash_flows(delay_non_pdp_yields(sc.curve, delay_years), sc.prices, TRUE)
DelayCashFlows == {delayed_cash_flows(sc, d) : sc \in DelayScenarios, d \in Delays}

\* -------------------------------------------- calculate_irr, computed once
IrrTable ==
    [cfs \in IrrSeries \cup McCashFlows \cup DelayCashFlows |-> calculate_irr(cfs)]
irr_of(cfs) ==
    IF cfs \in DOMAIN IrrTable THEN IrrTable[cfs] ELSE calculate_irr(cfs)

IrrVars == <<irr_cfs, irr_ret, irr_exit>>

IrrInit ==
    /\ irr_cfs = None
    /\ irr_ret = None
    /\ irr_exit = "none"

CallIrr ==
    \E cfs \in IrrSeries :
        \E r \in {irr_of(cfs)} :
            /\ irr_cfs' = Some(cfs)
            /\ irr_ret' = r.ret
            /\ irr_exit' = r.exit

\* ------------------------------------------------- run_monte_carlo, the loop
\* sim_irrs.append(irr if irr else -1.0)
recorded_irr(irr) ==
    IF IsNone(irr) \/ Val(irr) = 0 THEN -Scale ELSE Val(irr)

\* run_monte_carlo_with_delay: irrs.append(irr if irr is not None else -1.0)
recorded_irr_with_delay(irr) ==
    IF IsNone(irr) THEN -Scale ELSE Val(irr)

\* A variant of attribute that counts a loss with both factors under each
\* of them.
attribute_both(ra, profit, avg_price, b_factor) ==
    IF profit < 0
    THEN [ra EXCEPT !.price = @ + (IF avg_price < 800000 THEN 1 ELSE 0),
                    !.decline = @ + (IF b_factor < 700000 THEN 1 ELSE 0),
                    !.other = @ + (IF avg_price >= 800000 /\ b_factor >= 700000
                                   THEN 1 ELSE 0)]
    ELSE ra

\* A variant of attribute that nets the counters: a trial with a profit
\* takes back a loss counted under 'other'.
attribute_net(ra, profit, avg_price, b_factor) ==
    IF profit < 0
    THEN LET factors == (IF avg_price < 800000 THEN <<"price">> ELSE <<>>)
                        \o (IF b_factor < 700000 THEN <<"decline">> ELSE <<>>)
         IN  IF Len(factors) = 0 THEN [ra EXCEPT !.other = @ + 1]
             ELSE IF Len(factors) = 1 THEN [ra EXCEPT ![factors[1]] = @ + 1]
             ELSE [ra EXCEPT !.combined = @ + 1]
    ELSE [ra EXCEPT !.other = IF @ > 0 THEN @ - 1 ELSE @]

\* A variant of attribute whose thresholds include the threshold value.
attribute_inclusive(ra, profit, avg_price, b_factor) ==
    IF profit < 0
    THEN LET factors == (IF avg_price <= 800000 THEN <<"price">> ELSE <<>>)
                        \o (IF b_factor <= 700000 THEN <<"decline">> ELSE <<>>)
         IN  IF Len(factors) = 0 THEN [ra EXCEPT !.other = @ + 1]
             ELSE IF Len(factors) = 1 THEN [ra EXCEPT ![factors[1]] = @ + 1]
             ELSE [ra EXCEPT !.combined = @ + 1]
    ELSE ra

\* Lines 67-79: the counters after a trial.
attribute(ra, profit, avg_price, b_factor) ==
    IF profit < 0
    THEN LET factors == (IF avg_price < 800000 THEN <<"price">> ELSE <<>>)
                        \o (IF b_factor < 700000 THEN <<"decline">> ELSE <<>>)
         IN  IF Len(factors) = 0 THEN [ra EXCEPT !.other = @ + 1]
             ELSE IF Len(factors) = 1 THEN [ra EXCEPT ![factors[1]] = @ + 1]
             ELSE [ra EXCEPT !.combined = @ + 1]
    ELSE ra

\* Lines 57-60.
trial_metrics(draw, avg_price, yc, cfs) ==
    [b_factor |-> draw.b_factor, Di |-> draw.Di, avg_price |-> avg_price,
     stressed_yields |-> yc.curve, base_yield_sum |-> yc.base_yield_sum,
     cfs |-> cfs, irr |-> irr_of(cfs).ret, roi |-> calculate_roi(cfs),
     profit |-> SumSeq(cfs)]

trial_cash_flows(draw, price_path, avg_price, yc) ==
    trial_metrics(draw, avg_price, yc, build_cash_flows(yc.curve, price_path, TRUE))

\* Lines 42-60: the locals of a trial.
trial(price_path, avg_price, draw, base_sum) ==
    trial_cash_flows(draw, price_path, avg_price,
                     generate_hyperbolic_yield_curve(Some(draw.b_factor), Some(draw.Di),
                                                     FALSE, base_sum))

McVars == <<price_sims, mc_i, mc_locals, mc_draws, sim_irrs, sim_rois, sim_profits,
            sim_b_factors, sim_prices, risk_attribution>>

McInit ==
    /\ price_sims = None
    /\ mc_i = 0
    /\ mc_locals = None
    /\ mc_draws = <<>>
    /\ sim_irrs = <<>>
    /\ sim_rois = <<>>
    /\ sim_profits = <<>>
    /\ sim_b_factors = <<>>
    /\ sim_prices = <<>>
    /\ risk_attribution = [price |-> 0, decline |-> 0, combined |-> 0, other |-> 0]

\* The call of run_monte_carlo(num_sims = NumSims, price_sims), lines 16-38.
CallMonteCarlo ==
    /\ price_sims = None
    /\ \E ps \in [1..NumSims -> PricePaths] :
         price_sims' = Some([blended_paths |-> ps,
                             blended_avg |-> [i \in 1..NumSims |-> Mean(ps[i])]])
    /\ mc_i' = 0
    /\ mc_locals' = None
    /\ mc_draws' = <<>>
    /\ sim_irrs' = <<>>
    /\ sim_rois' = <<>>
    /\ sim_profits' = <<>>
    /\ sim_b_factors' = <<>>
    /\ sim_prices' = <<>>
    /\ risk_attribution' = [price |-> 0, decline |-> 0, combined |-> 0, other |-> 0]
    /\ UNCHANGED CurveVars

\* One pass of the loop of run_monte_carlo, lines 40-79.
RunTrial ==
    /\ price_sims # None
    /\ mc_i < NumSims
    /\ \E b_shock \in BShocks, Di_shock \in DiShocks :
         \E t \in {trial(Val(price_sims).blended_paths[mc_i + 1],
                         Val(price_sims).blended_avg[mc_i + 1],
                         simulate_decline_curve_risk(TRUE, b_shock, Di_shock),
                         BASE_YIELD_SUM)} :
           /\ mc_locals' = Some(t)
           /\ mc_draws' = Append(mc_draws, [b_factor |-> t.b_factor, Di |-> t.Di])
           /\ sim_prices' = Append(sim_prices, t.avg_price)
           /\ sim_b_factors' = Append(sim_b_factors, t.b_factor)
           /\ sim_irrs' = Append(sim_irrs, recorded_irr(t.irr))
           /\ sim_rois' = Append(sim_rois, t.roi)
           /\ sim_profits' = Append(sim_profits, t.profit)
           /\ risk_attribution' =
                  attribute(risk_attribution, t.profit, t.avg_price, t.b_factor)
           /\ yc_args' = <<Some(t.b_factor), Some(t.Di), FALSE>>
           /\ yc_ret' = t.stressed_yields
           /\ yc_before' = BASE_YIELD_SUM
           /\ BASE_YIELD_SUM' = t.base_yield_sum
    /\ mc_i' = mc_i + 1
    /\ UNCHANGED <<price_sims, yc_ref>>

\* ------------------------------------------------------- the delay study
DelayVars == <<dl_scenario, dl_delay, dl_irr, dl_prev>>

DelayInit ==
    /\ dl_scenario = None
    /\ dl_delay = 0
    /\ dl_irr = None
    /\ dl_prev = None

\* A curve and a price path are fixed and valued without delay.
ChooseScenario ==
    /\ dl_scenario = None
    /\ \E sc \in DelayScenarios :
         /\ dl_scenario' = Some(sc)
         /\ dl_irr' = irr_of(delayed_cash_flows(sc, 0)).ret
    /\ dl_delay' = 0
    /\ dl_prev' = None

\* The same curve and prices are valued at a longer delay.
LongerDelay ==
    /\ dl_scenario # None
    /\ \E d \in Delays :
         /\ d > dl_delay
         /\ dl_delay' = d
         /\ dl_irr' = irr_of(delayed_cash_flows(Val(dl_scenario), d)).ret
    /\ dl_prev' = Some([delay |-> dl_delay, irr |-> dl_irr])
    /\ UNCHANGED dl_scenario

\* ------------------------------------------- callers of build_cash_flows
VARIABLES bc_args,    \* <<yield_curve, price_factors_by_year, include_ga>> of
                      \* the last call, None before it
          bc_ret      \* the list that call returned

\* The yield curves and price paths build_cash_flows is called with: the
\* ten-year curves of the decline draws and ten-year price paths, and
\* arrays that are shorter or longer than ten years.
CashCurves ==
    {hyperbolic_yield_curve(d.b_factor, d.Di, FALSE, None).curve : d \in DeclineDraws}
    \cup {<<YIELD_Y1, YIELD_Y2, YIELD_Y3, 232733, 192971>>,
          <<YIELD_Y1, YIELD_Y2, YIELD_Y3, 232733, 192971, 164393, 142910, 126200,
            112846, 101946, 93000, 85000>>}
CashPaths ==
    PricePaths \cup {[t \in 1..10 |-> IF t <= 5 THEN 200000 ELSE 2 * Scale],
                     [t \in 1..5 |-> Scale], [t \in 1..12 |-> 900000]}

CashVars == <<bc_args, bc_ret>>

CashInit ==
    /\ bc_args = None
    /\ bc_ret = None

CallBuild ==
    \E yc \in CashCurves, pp \in CashPaths, include_ga \in BOOLEAN :
        /\ bc_args' = Some(<<yc, pp, include_ga>>)
        /\ bc_ret' = build_cash_flows(yc, pp, include_ga)

\* ----------------------------------- callers of estimate_terminal_value
VARIABLES tv_cur,     \* [price, nav_multiple, ret] of the last call, or None
          tv_prev,    \* the same of the call before it, or None
          tv_old      \* the same of the last call of the legacy function

\* Misc/OLD/cash_flows.py: the legacy schedule and terminal value.
legacy_nav_multiple(year_10_price_factor) ==
    IF year_10_price_factor >= 900000 THEN 900000
    ELSE IF year_10_price_factor >= 700000 THEN 700000
    ELSE IF year_10_price_factor >= 500000 THEN 500000
    ELSE 300000

legacy_estimate_terminal_value(year_10_price_factor) ==
    FMul(FMul(FMul(FMul(TOTAL_NAV_MM, REMAINING_RESERVES_PCT),
                   legacy_nav_multiple(year_10_price_factor)),
              year_10_price_factor),
         CO_INVEST_SHARE)

\* Year-10 price factors: the floor of the price simulation, both sides of
\* every threshold, the thresholds, and prices between and beyond them.
TerminalPrices ==
    {0, 200000, 499999, 500000, 600000, 699999, 700000, 800000, 899999,
     900000, Scale, 2 * Scale}

TermVars == <<tv_cur, tv_prev, tv_old>>

TermInit ==
    /\ tv_cur = None
    /\ tv_prev = None
    /\ tv_old = None

CallTerminalValue ==
    /\ \E p \in TerminalPrices :
         tv_cur' = Some([price |-> p, nav_multiple |-> nav_multiple(p),
                         ret |-> estimate_terminal_value(p)])
    /\ tv_prev' = tv_cur
    /\ UNCHANGED tv_old

CallLegacyTerminalValue ==
    /\ \E p \in TerminalPrices :
         tv_old' = Some([price |-> p, nav_multiple |-> legacy_nav_multiple(p),
                         ret |-> legacy_estimate_terminal_value(p)])
    /\ UNCHANGED <<tv_cur, tv_prev>>

\* ---------------------------------------- callers of calculate_payback
VARIABLES pb_args,    \* the series of the last call, or None
          pb_ret      \* its return value: None, or the years (years + num / den)

\* cash_flows.py: calculate_payback.  np.cumsum is the running sum; the
\* returned float (t - 1) + -cumulative[t-1] / cfs[t] is kept as the whole
\* years and the two terms of the quotient, a zero den being the
\* quotient numpy gives without raising (inf or nan).
cumsum(cfs) == [t \in 1..Len(cfs) |-> SumSeq(SubSeq(cfs, 1, t))]

payback_strict(cfs) ==
    LET cumulative == cumsum(cfs)
        scan[t \in 1..Len(cfs)] ==
            IF t >= Len(cfs) THEN None
            ELSE IF cumulative[t + 1] > 0
                 THEN Some([years |-> t - 1, num |-> -cumulative[t], den |-> cfs[t + 1]])
                 ELSE scan[t + 1]
    IN  IF Len(cfs) = 0 THEN None ELSE scan[1]

\* Year t of the source is element t + 1 of the sequence.
calculate_payback(cfs) ==
    LET cumulative == cumsum(cfs)
        scan[t \in 1..Len(cfs)] ==
            IF t >= Len(cfs) THEN None
            ELSE IF cumulative[t + 1] >= 0
                 THEN Some([years |-> t - 1, num |-> -cumulative[t], den |-> cfs[t + 1]])
                 ELSE scan[t + 1]
    IN  IF Len(cfs) = 0 THEN None ELSE scan[1]

\* The float a finite result stands for, on the fixed-point grid.
payback_years(r) == r.years * Scale + MulDiv(r.num, Scale, r.den)

MaxFlows == 5
FlowValues == {-10 * CashScale, -5 * CashScale, 0, 5 * CashScale, 15 * CashScale}

\* The series of a call: the empty one, or the series of the call before
\* it with one more year, so that every series of up to MaxFlows values is
\* called.
FlowSeries(last) ==
    {<<>>} \cup (IF last # None /\ Len(Val(last)) < MaxFlows
                 THEN {Append(Val(last), v) : v \in FlowValues}
                 ELSE {})

PayVars == <<pb_args, pb_ret>>

PayInit ==
    /\ pb_args = None
    /\ pb_ret = None

CallPayback ==
    \E cfs \in FlowSeries(pb_args) :
        /\ pb_args' = Some(cfs)
        /\ pb_ret' = calculate_payback(cfs)

\* ------------------------------------- callers of delay_non_pdp_yields
VARIABLES ds_args,    \* <<base_yields, delay_years>> of the last call, None before it
          ds_ret      \* the curve it returned

\* Ten-year curves of the decline draws, and delays below, inside and
\* beyond the horizon, whole and fractional.
ShiftCurves ==
    {c \in CashCurves : Len(c) = Horizon}
    \cup {[t \in 1..Horizon |-> 100001], [t \in 1..Horizon |-> IF t = 1 THEN 300000 ELSE 0]}
ShiftDelays ==
    {-Scale, 0, 250000, 500000, Scale, 1500000, 2750000, 5 * Scale, 9 * Scale,
     9500000, 9999999, 10 * Scale, 12 * Scale}

ShiftVars == <<ds_args, ds_ret>>

ShiftInit ==
    /\ ds_args = None
    /\ ds_ret = None

CallDelay ==
    \E base_yields \in ShiftCurves, delay_years \in ShiftDelays :
        /\ ds_args' = <<base_yields, delay_years>>
        /\ ds_ret' = delay_non_pdp_yields(base_yields, delay_years)

\* ------------------------- curves of sampled decline parameters
VARIABLES sc_shocks,  \* <<b_shock, Di_shock>> of the last draw
          sc_draw,    \* the draw of simulate_decline_curve_risk, None before it
          sc_cal,     \* calibrate_base of the curve call that followed
          sc_raw,     \* yield_t of the loop of lines 56-60, before the floor
          sc_ret      \* the curve returned

SampleVars == <<sc_shocks, sc_draw, sc_cal, sc_raw, sc_ret>>

\* yield_t for t = 1..7 (line 57), computed once for the parameters of
\* TailTable.
raw_yields(b_factor, Di) ==
    LET app[t \in 0..TailYears] ==
            IF t = 0 THEN <<>> ELSE Append(app[t - 1], ArpsRaw(b_factor, Di, t))
    IN  app[TailYears]

RawTable == {<<bd, raw_yields(bd[1], bd[2])>> : bd \in BValues \X DiValues}

raw_yields_of(b_factor, Di) ==
    IF \E e \in RawTable : e[1] = <<b_factor, Di>>
    THEN (CHOOSE e \in RawTable : e[1] = <<b_factor, Di>>)[2]
    ELSE raw_yields(b_factor, Di)

SampleInit ==
    /\ sc_shocks = None
    /\ sc_draw = None
    /\ sc_cal = FALSE
    /\ sc_raw = <<>>
    /\ sc_ret = <<>>

\* The shocks of the trials, ones that land on b = 0.5 and Di = 0.45
\* exactly, and a second one that the clip cuts back to b = 1.2.
SampleBShocks == BShocks \cup {-400000, 400000}
SampleDiShocks == DiShocks \cup {200000}

\* A draw of simulate_decline_curve_risk and the curve generated for it.
SampleCurve ==
    \E b_shock \in SampleBShocks, Di_shock \in SampleDiShocks, cal \in BOOLEAN :
        \E d \in {simulate_decline_curve_risk(TRUE, b_shock, Di_shock)} :
        \E r \in {generate_hyperbolic_yield_curve(Some(d.b_factor), Some(d.Di), cal,
                                                  BASE_YIELD_SUM)} :
            /\ sc_shocks' = <<b_shock, Di_shock>>
            /\ sc_draw' = Some(d)
            /\ sc_cal' = cal
            /\ sc_raw' = raw_yields_of(d.b_factor, d.Di)
            /\ sc_ret' = r.curve
            /\ BASE_YIELD_SUM' = r.base_yield_sum
            /\ UNCHANGED <<yc_args, yc_ret, yc_before, yc_ref>>

\* ------------------------------------- calculate_irr, pass by pass
VARIABLES nw_pc,      \* "idle", "loop" inside calculate_irr, "done" after it
          nw_cfs,     \* the series of the call
          nw_st,      \* [rate, exit] of the Newton loop
          nw_iter,    \* passes of the loop body begun so far
          nw_prev,    \* rate at the start of the last pass
          nw_fprime,  \* f_prime of the last pass, None if it was not computed
          nw_ret      \* the value returned, None for None or no return

NewtonVars == <<nw_pc, nw_cfs, nw_st, nw_iter, nw_prev, nw_fprime, nw_ret>>

NewtonInit ==
    /\ nw_pc = "idle"
    /\ nw_cfs = <<>>
    /\ nw_st = [rate |-> initial_guess, exit |-> "run"]
    /\ nw_iter = 0
    /\ nw_prev = initial_guess
    /\ nw_fprime = None
    /\ nw_ret = None

\* Series in $MM: ones on which the iteration settles, ones on which it
\* cycles until the cap (inside and outside the band), an all-zero and an
\* empty one, and one whose first step lands on rate = -1.
NewtonSeries ==
    {<<-195 * CashScale, 120 * CashScale>>,
     <<-195 * CashScale, 120 * CashScale, 140 * CashScale>>,
     <<-100 * CashScale, 80 * CashScale, 60 * CashScale>>,
     <<-200 * CashScale, 110 * CashScale, 170 * CashScale, -110 * CashScale>>,
     <<-130 * CashScale, -295 * CashScale, -35 * CashScale, 225 * CashScale>>,
     <<0, 0, 0>>, <<>>, <<-66000, 36300>>}

\* Lines 96-97: the call, up to the initial guess.
CallNewton ==
    /\ nw_pc \in {"idle", "done"}
    /\ \E cfs \in NewtonSeries : nw_cfs' = cfs
    /\ nw_pc' = "loop"
    /\ nw_st' = [rate |-> initial_guess, exit |-> "run"]
    /\ nw_iter' = 0
    /\ nw_prev' = initial_guess
    /\ nw_fprime' = None
    /\ nw_ret' = None

\* Lines 99-111: one pass of the loop body.
NewtonPass ==
    /\ nw_pc = "loop"
    /\ nw_st.exit = "run"
    /\ nw_iter < max_iterations
    /\ nw_st' = newton_step(nw_cfs, nw_st)
    /\ nw_iter' = nw_iter + 1
    /\ nw_prev' = nw_st.rate
    /\ nw_fprime' = IF Scale + nw_st.rate = 0 /\ nw_cfs # <<>> THEN None
                    ELSE Some(npv_derivative(nw_st.rate, nw_cfs))
    /\ UNCHANGED <<nw_pc, nw_cfs, nw_ret>>

\* Lines 109 and 114, and the exception leaving the function.
ReturnIrr ==
    /\ nw_pc = "loop"
    /\ nw_st.exit # "run" \/ nw_iter = max_iterations
    /\ nw_ret' = irr_return(nw_st).ret
    /\ nw_pc' = "done"
    /\ UNCHANGED <<nw_cfs, nw_st, nw_iter, nw_prev, nw_fprime>>

\* --------------------------------------- run_monte_carlo, step by step
VARIABLES st_pc,        \* the statement run_monte_carlo is about to execute
          st_i,         \* the loop index i, counted from 1
          st_supplied,  \* whether the caller passed price_sims
          st_sims,      \* price_sims, None while it is None
          st_loc,       \* the locals of the trial under way
          st_out,       \* the storage arrays and risk_attribution
          st_log        \* the steps executed so far, each with its trial index

StepVars == <<st_pc, st_i, st_supplied, st_sims, st_loc, st_out, st_log>>

NoLocals ==
    [price_path |-> <<>>, avg_price |-> 0, b_factor |-> 0, Di |-> 0,
     stressed_yields |-> <<>>, cfs |-> <<>>, irr |-> None, roi |-> 0, profit |-> 0]

\* Lines 32-38: the storage arrays as created.
NoResults ==
    [sim_irrs |-> <<>>, sim_rois |-> <<>>, sim_profits |-> <<>>,
     sim_b_factors |-> <<>>, sim_prices |-> <<>>,
     risk_attribution |-> [price |-> 0, decline |-> 0, combined |-> 0, other |-> 0]]

StepInit ==
    /\ st_pc = "idle"
    /\ st_i = 0
    /\ st_supplied = FALSE
    /\ st_sims = None
    /\ st_loc = NoLocals
    /\ st_out = NoResults
    /\ st_log = <<>>

\* The price paths and the shocks of the trials followed step by step.
StepPaths == {Flat(Scale), Flat(500000)}
StepBShocks == {-720000, 0}
StepDiShocks == {0, 250000}

\* What simulate_commodity_prices hands on for the blended paths ps.
price_sims_of(ps) ==
    [blended_paths |-> ps, blended_avg |-> [i \in 1..Len(ps) |-> Mean(ps[i])]]

\* A variant of after_step that goes on to the next trial once the results
\* are appended and attributes the losses of a trial when the next one has
\* its results.
after_step_overlapped(step, i, num_sims) ==
    IF step = "append" /\ i < num_sims THEN [pc |-> "path", i |-> i + 1]
    ELSE IF step = "append" THEN [pc |-> "done", i |-> i]
    ELSE [pc |-> CASE step = "prices" -> "path"
                   [] step = "path" -> "sample"
                   [] step = "sample" -> "curve"
                   [] step = "curve" -> "cash"
                   [] step = "cash" -> "metrics"
                   [] step = "metrics" -> "append"
                   [] OTHER -> "done",
          i |-> IF step = "prices" THEN 1 ELSE i]

\* The statement that follows a step of the body (lines 40-79): the next
\* statement of the same trial, after the attribution the first statement
\* of the next trial, and the return after the last trial.
after_step(step, i, num_sims) ==
    IF step = "classify" /\ i < num_sims THEN [pc |-> "path", i |-> i + 1]
    ELSE IF step = "classify" THEN [pc |-> "done", i |-> i]
    ELSE [pc |-> CASE step = "prices" -> "path"
                   [] step = "path" -> "sample"
                   [] step = "sample" -> "curve"
                   [] step = "curve" -> "cash"
                   [] step = "cash" -> "metrics"
                   [] step = "metrics" -> "append"
                   [] OTHER -> "classify",
          i |-> IF step = "prices" THEN 1 ELSE i]

\* Lines 25-38: the call, with price_sims supplied or left None.
CallSteps ==
    /\ st_pc = "idle"
    /\ \E supplied \in BOOLEAN :
         /\ st_supplied' = supplied
         /\ IF supplied
            THEN /\ \E ps \in [1..NumSims -> StepPaths] : st_sims' = Some(price_sims_of(ps))
                 /\ st_pc' = "path"
                 /\ st_i' = 1
            ELSE /\ st_sims' = None
                 /\ st_pc' = "prices"
                 /\ st_i' = 0
    /\ st_loc' = NoLocals
    /\ st_out' = NoResults
    /\ st_log' = <<>>
    /\ UNCHANGED CurveVars

\* Lines 28-29: price_sims = simulate_commodity_prices(years=10, sims=num_sims)
SimulatePrices ==
    /\ st_pc = "prices"
    /\ \E ps \in [1..NumSims -> StepPaths] : st_sims' = Some(price_sims_of(ps))
    /\ st_log' = Append(st_log, <<"prices", 0>>)
    /\ \E n \in {after_step("prices", st_i, NumSims)} : st_pc' = n.pc /\ st_i' = n.i
    /\ UNCHANGED <<st_supplied, st_loc, st_out, CurveVars>>

\* Lines 42-44: the price path of trial i and its average.
TakePath ==
    /\ st_pc = "path"
    /\ st_loc' = [NoLocals EXCEPT
                     !.price_path = Val(st_sims).blended_paths[st_i],
                     !.avg_price = Val(st_sims).blended_avg[st_i]]
    /\ st_out' = [st_out EXCEPT
                     !.sim_prices = Append(@, Val(st_sims).blended_avg[st_i])]
    /\ st_log' = Append(st_log, <<"path", st_i>>)
    /\ \E n \in {after_step("path", st_i, NumSims)} : st_pc' = n.pc /\ st_i' = n.i
    /\ UNCHANGED <<st_supplied, st_sims, CurveVars>>

\* Lines 47-48: the decline parameters of the trial.
SampleDecline ==
    /\ st_pc = "sample"
    /\ \E b_shock \in StepBShocks, Di_shock \in StepDiShocks :
         \E d \in {simulate_decline_curve_risk(TRUE, b_shock, Di_shock)} :
            /\ st_loc' = [st_loc EXCEPT !.b_factor = d.b_factor, !.Di = d.Di]
            /\ st_out' = [st_out EXCEPT !.sim_b_factors = Append(@, d.b_factor)]
    /\ st_log' = Append(st_log, <<"sample", st_i>>)
    /\ \E n \in {after_step("sample", st_i, NumSims)} : st_pc' = n.pc /\ st_i' = n.i
    /\ UNCHANGED <<st_supplied, st_sims, CurveVars>>

\* Lines 51-54: the stressed yield curve.
BuildCurve ==
    /\ st_pc = "curve"
    /\ \E r \in {generate_hyperbolic_yield_curve(Some(st_loc.b_factor), Some(st_loc.Di),
                                                  FALSE, BASE_YIELD_SUM)} :
         /\ st_loc' = [st_loc EXCEPT !.stressed_yields = r.curve]
         /\ yc_args' = <<Some(st_loc.b_factor), Some(st_loc.Di), FALSE>>
         /\ yc_ret' = r.curve
         /\ yc_before' = BASE_YIELD_SUM
         /\ BASE_YIELD_SUM' = r.base_yield_sum
    /\ st_log' = Append(st_log, <<"curve", st_i>>)
    /\ \E n \in {after_step("curve", st_i, NumSims)} : st_pc' = n.pc /\ st_i' = n.i
    /\ UNCHANGED <<st_supplied, st_sims, st_out, yc_ref>>

\* Line 57: the cash flows.
BuildCashFlows ==
    /\ st_pc = "cash"
    /\ st_loc' = [st_loc EXCEPT
                     !.cfs = build_cash_flows(st_loc.stressed_yields, st_loc.price_path,
                                              TRUE)]
    /\ st_log' = Append(st_log, <<"cash", st_i>>)
    /\ \E n \in {after_step("cash", st_i, NumSims)} : st_pc' = n.pc /\ st_i' = n.i
    /\ UNCHANGED <<st_supplied, st_sims, st_out, CurveVars>>

\* Lines 58-60: irr, roi and profit.
ComputeMetrics ==
    /\ st_pc = "metrics"
    /\ st_loc' = [st_loc EXCEPT !.irr = irr_of(st_loc.cfs).ret,
                                !.roi = calculate_roi(st_loc.cfs),
                                !.profit = SumSeq(st_loc.cfs)]
    /\ st_log' = Append(st_log, <<"metrics", st_i>>)
    /\ \E n \in {after_step("metrics", st_i, NumSims)} : st_pc' = n.pc /\ st_i' = n.i
    /\ UNCHANGED <<st_supplied, st_sims, st_out, CurveVars>>

\* Lines 62-64: the three appends.
AppendResults ==
    /\ st_pc = "append"
    /\ st_out' = [st_out EXCEPT !.sim_irrs = Append(@, recorded_irr(st_loc.irr)),
                                !.sim_rois = Append(@, st_loc.roi),
                                !.sim_profits = Append(@, st_loc.profit)]
    /\ st_log' = Append(st_log, <<"append", st_i>>)
    /\ \E n \in {after_step("append", st_i, NumSims)} : st_pc' = n.pc /\ st_i' = n.i
    /\ UNCHANGED <<st_supplied, st_sims, st_loc, CurveVars>>

\* Lines 67-79: the attribution of a loss.
ClassifyLoss ==
    /\ st_pc = "classify"
    /\ st_out' = [st_out EXCEPT
                     !.risk_attribution = attribute(@, st_loc.profit, st_loc.avg_price,
                                                    st_loc.b_factor)]
    /\ st_log' = Append(st_log, <<"classify", st_i>>)
    /\ \E n \in {after_step("classify", st_i, NumSims)} : st_pc' = n.pc /\ st_i' = n.i
    /\ UNCHANGED <<st_supplied, st_sims, st_loc, CurveVars>>

\* ------------------------------------- arguments and results as objects
\* The lists and arrays of a call live in a heap, a sequence of objects
\* addressed by their position; a function gets the addresses of its
\* arguments and hands back a value or the address of its result.
VARIABLES fr_heap,    \* the objects after the last call
          fr_before,  \* the objects when that call began
          fr_fn,      \* the function called, "none" before the first call
          fr_args,    \* the addresses of its list and array arguments
          fr_opts,    \* its other arguments
          fr_ret      \* [ref |-> address] or [val |-> value]

FrameVars == <<fr_heap, fr_before, fr_fn, fr_args, fr_opts, fr_ret>>

FrameInit ==
    /\ fr_heap = <<>>
    /\ fr_before = <<>>
    /\ fr_fn = "none"
    /\ fr_args = <<>>
    /\ fr_opts = <<>>
    /\ fr_ret = [val |-> None]

\* A new object: np.array(x), x.copy(), x * c, np.zeros(n), [..] all make one.
alloc(heap, obj) == [heap |-> Append(heap, obj), ref |-> Len(heap) + 1]

\* cash_flows.py: the four metrics read cfs and build nothing but numbers.
calculate_npv(cfs, discount_rate) == npv(discount_rate, cfs)

metric_call(fn, heap, a_cfs, discount_rate) ==
    [heap |-> heap,
     ret |-> [val |-> CASE fn = "calculate_irr" -> irr_of(heap[a_cfs]).ret
                        [] fn = "calculate_roi" -> Some(calculate_roi(heap[a_cfs]))
                        [] fn = "calculate_payback" -> calculate_payback(heap[a_cfs])
                        [] OTHER -> Some(calculate_npv(heap[a_cfs], discount_rate))]]

\* build_cash_flows: cfs is a new list, the only object appended to.
build_cash_flows_call(heap, a_yc, a_pp, include_ga) ==
    LET r == alloc(heap, build_cash_flows(heap[a_yc], heap[a_pp], include_ga))
    IN  [heap |-> r.heap, ret |-> [ref |-> r.ref]]

\* A variant of delay_call that works on the array it is given (np.asarray
\* in place of np.array) and hands it back for delay_years <= 0.
delay_call_on_input(heap, a_base, delay_years) ==
    IF delay_years <= 0 THEN [heap |-> heap, ret |-> [ref |-> a_base]]
    ELSE LET r == alloc(heap, delay_non_pdp_yields(heap[a_base], delay_years))
         IN  [heap |-> r.heap, ret |-> [ref |-> r.ref]]

\* delay_non_pdp_yields: yields = np.array(base_yields) is a copy (line 83),
\* and each return hands back a further new array (lines 89, 96, 156).
delay_call(heap, a_base, delay_years) ==
    LET y == alloc(heap, heap[a_base])
        r == alloc(y.heap, delay_non_pdp_yields(y.heap[y.ref], delay_years))
    IN  [heap |-> r.heap, ret |-> [ref |-> r.ref]]

\* run_monte_carlo with price_sims supplied: it indexes blended_paths and
\* blended_avg (lines 42-43) and returns new arrays.
run_monte_carlo_call(heap, a_sims, draw) ==
    LET r == alloc(heap,
                   [i \in 1..Len(heap[a_sims].blended_paths) |->
                       trial(heap[a_sims].blended_paths[i], heap[a_sims].blended_avg[i],
                             draw, None).profit])
    IN  [heap |-> r.heap, ret |-> [ref |-> r.ref]]

\* The objects the callers pass.
FrameSeries ==
    {<<-195 * CashScale, 120 * CashScale>>,
     <<-195 * CashScale, 120 * CashScale, 140 * CashScale>>,
     <<-100 * CashScale, 80 * CashScale, 60 * CashScale>>,
     <<-195 * CashScale, 80 * CashScale, 200 * CashScale>>,
     <<-195 * CashScale, 300 * CashScale>>,
     <<-100 * CashScale, 200 * CashScale, 0>>}
FrameRates == {0, 100000, 250000}
FrameCurves == {c \in ShiftCurves : c[1] = YIELD_Y1 /\ c[4] > 200000}
FrameDelays == {-Scale, 0, 500000, Scale, 2750000, 10 * Scale, 12 * Scale}
FrameDraws == {decline_draw(300000, 450000), decline_draw(1200000, 100000)}

\* The state after a call of fn with the objects objs as arguments.
FrameCall(fn, objs, opts, r) ==
    /\ fr_fn' = fn
    /\ fr_before' = objs
    /\ fr_args' = [k \in 1..Len(objs) |-> k]
    /\ fr_opts' = opts
    /\ fr_heap' = r.heap
    /\ fr_ret' = r.ret

CallMetric ==
    \E fn \in {"calculate_irr", "calculate_roi", "calculate_payback", "calculate_npv"},
       cfs \in FrameSeries, rate \in FrameRates :
        /\ fn # "calculate_npv" => rate = 0
        /\ FrameCall(fn, <<cfs>>, <<rate>>, metric_call(fn, <<cfs>>, 1, rate))

CallBuildOnObjects ==
    \E yc \in FrameCurves, pp \in StepPaths, include_ga \in BOOLEAN :
        FrameCall("build_cash_flows", <<yc, pp>>, <<include_ga>>,
                  build_cash_flows_call(<<yc, pp>>, 1, 2, include_ga))

CallDelayOnObjects ==
    \E yc \in FrameCurves, d \in FrameDelays :
        FrameCall("delay_non_pdp_yields", <<yc>>, <<d>>, delay_call(<<yc>>, 1, d))

CallMonteCarloOnObjects ==
    \E ps \in [1..NumSims -> StepPaths], draw \in FrameDraws :
        FrameCall("run_monte_carlo", <<price_sims_of(ps)>>, <<draw>>,
                  run_monte_carlo_call(<<price_sims_of(ps)>>, 1, draw))

\* ----------------------------- one curve delayed longer and longer
VARIABLES lg_curve,   \* the base curve under study, None before it is chosen
          lg_delay,   \* delay_years of the last call
          lg_ret,     \* the curve that call returned
          lg_prev     \* None or <<[delay, ret]>> of the call before

LongerVars == <<lg_curve, lg_delay, lg_ret, lg_prev>>

LongerInit ==
    /\ lg_curve = None
    /\ lg_delay = 0
    /\ lg_ret = <<>>
    /\ lg_prev = None

LongerDelays == {d \in ShiftDelays : d >= 0}

\* Lines 488-494: the loop over delays starts with a base curve.
StartDelays ==
    /\ lg_curve = None
    /\ \E c \in ShiftCurves, d \in LongerDelays :
         /\ lg_curve' = Some(c)
         /\ lg_delay' = d
         /\ lg_ret' = delay_non_pdp_yields(c, d)
    /\ lg_prev' = None

\* The same curve is delayed by at least as much as before.
NextDelay ==
    /\ lg_curve # None
    /\ \E d \in LongerDelays :
         /\ d >= lg_delay
         /\ lg_delay' = d
         /\ lg_ret' = delay_non_pdp_yields(Val(lg_curve), d)
    /\ lg_prev' = Some([delay |-> lg_delay, ret |-> lg_ret])
    /\ UNCHANGED lg_curve

\* ------------------------------------------------------------ the programs
vars == <<CurveVars, IrrVars, PriceVars, McVars, DelayVars, CashVars, TermVars, PayVars, ShiftVars, SampleVars, NewtonVars, StepVars, FrameVars, LongerVars>>

Init == CurveInit /\ IrrInit /\ PriceInit /\ McInit /\ DelayInit /\ CashInit /\ TermInit /\ PayInit /\ ShiftInit /\ SampleInit /\ NewtonInit /\ StepInit /\ FrameInit /\ LongerInit

\* run_monte_carlo
McNext == CallMonteCarlo \/ RunTrial
Spec == Init /\ [][McNext /\ UNCHANGED <<IrrVars, PriceVars, DelayVars, CashVars, TermVars, PayVars, ShiftVars, SampleVars, NewtonVars, StepVars, FrameVars, LongerVars>>]_vars

\* callers of generate_hyperbolic_yield_curve
SpecCurve ==
    Init /\ [][CallCurve /\ UNCHANGED <<IrrVars, PriceVars, McVars, DelayVars, CashVars, TermVars, PayVars, ShiftVars, SampleVars, NewtonVars, StepVars, FrameVars, LongerVars>>]_vars

\* callers of calculate_irr
SpecIrr ==
    Init /\ [][CallIrr /\ UNCHANGED <<CurveVars, PriceVars, McVars, DelayVars, CashVars, TermVars, PayVars, ShiftVars, SampleVars, NewtonVars, StepVars, FrameVars, LongerVars>>]_vars

\* simulate_commodity_prices
PriceNext == CallSimulate \/ StartTrial \/ YearStep \/ FinishTrial
SpecPrice ==
    Init /\ [][PriceNext /\ UNCHANGED <<CurveVars, IrrVars, McVars, DelayVars, CashVars, TermVars, PayVars, ShiftVars, SampleVars, NewtonVars, StepVars, FrameVars, LongerVars>>]_vars

\* the delay study
DelayNext == ChooseScenario \/ LongerDelay
SpecDelay ==
    Init /\ [][DelayNext /\ UNCHANGED <<CurveVars, IrrVars, PriceVars, McVars, CashVars, TermVars, PayVars, ShiftVars, SampleVars, NewtonVars, StepVars, FrameVars, LongerVars>>]_vars

\* callers of build_cash_flows
SpecCash ==
    Init /\ [][CallBuild
               /\ UNCHANGED <<CurveVars, IrrVars, PriceVars, McVars, DelayVars, TermVars, PayVars, ShiftVars, SampleVars, NewtonVars, StepVars, FrameVars, LongerVars>>]_vars

\* callers of estimate_terminal_value, current and legacy
TermNext == CallTerminalValue \/ CallLegacyTerminalValue
SpecTerminal ==
    Init /\ [][TermNext
               /\ UNCHANGED <<CurveVars, IrrVars, PriceVars, McVars, DelayVars, CashVars,
                               PayVars, ShiftVars, SampleVars, NewtonVars, StepVars, FrameVars, LongerVars>>]_vars

\* callers of calculate_payback
SpecPayback ==
    Init /\ [][CallPayback
               /\ UNCHANGED <<CurveVars, IrrVars, PriceVars, McVars, DelayVars, CashVars,
                               TermVars, ShiftVars, SampleVars, NewtonVars, StepVars, FrameVars, LongerVars>>]_vars

\* callers of delay_non_pdp_yields
SpecShift ==
    Init /\ [][CallDelay
               /\ UNCHANGED <<CurveVars, IrrVars, PriceVars, McVars, DelayVars, CashVars,
                               TermVars, PayVars, SampleVars, NewtonVars, StepVars, FrameVars, LongerVars>>]_vars

\* simulate_decline_curve_risk followed by generate_hyperbolic_yield_curve
SpecSample ==
    Init /\ [][SampleCurve
               /\ UNCHANGED <<IrrVars, PriceVars, McVars, DelayVars, CashVars, TermVars,
                               PayVars, ShiftVars, NewtonVars, StepVars, FrameVars, LongerVars>>]_vars

\* calculate_irr, one pass of its loop at a time
NewtonNext == CallNewton \/ NewtonPass \/ ReturnIrr
SpecNewton ==
    Init /\ [][NewtonNext
               /\ UNCHANGED <<CurveVars, IrrVars, PriceVars, McVars, DelayVars, CashVars,
                               TermVars, PayVars, ShiftVars, SampleVars, StepVars, FrameVars, LongerVars>>]_vars

\* run_monte_carlo, one statement at a time
StepNext ==
    \/ CallSteps \/ SimulatePrices \/ TakePath \/ SampleDecline \/ BuildCurve
    \/ BuildCashFlows \/ ComputeMetrics \/ AppendResults \/ ClassifyLoss
SpecSteps ==
    Init /\ [][StepNext
               /\ UNCHANGED <<IrrVars, PriceVars, McVars, DelayVars, CashVars, TermVars,
                               PayVars, ShiftVars, SampleVars, NewtonVars, FrameVars, LongerVars>>]_vars

\* the functions called on objects
FrameNext ==
    CallMetric \/ CallBuildOnObjects \/ CallDelayOnObjects \/ CallMonteCarloOnObjects
SpecFrame ==
    Init /\ [][FrameNext
               /\ UNCHANGED <<CurveVars, IrrVars, PriceVars, McVars, DelayVars, CashVars,
                               TermVars, PayVars, ShiftVars, SampleVars, NewtonVars,
                               StepVars, LongerVars>>]_vars

\* delay_non_pdp_yields at growing delays
LongerNext == StartDelays \/ NextDelay
SpecLonger ==
    Init /\ [][LongerNext
               /\ UNCHANGED <<CurveVars, IrrVars, PriceVars, McVars, DelayVars, CashVars,
                               TermVars, PayVars, ShiftVars, SampleVars, NewtonVars,
                               StepVars, FrameVars>>]_vars

\* ------------------------------------------------------------ properties
AttributionKeys == {"price", "decline", "combined", "other"}
AttributionSum(ra) == ra.price + ra.decline + ra.combined + ra.other
Losses(profits) == Cardinality({i \in 1..Len(profits) : profits[i] < 0})
Incremented(old, new) == {k \in AttributionKeys : new[k] # old[k]}

\* C1: after any sequence of trials the four counters of risk_attribution
\* sum to the number of trials with profit < 0: a losing trial adds one to
\* exactly one counter, a trial with profit >= 0 changes none.
C1_OneCounterPerLosingTrial ==
    [][/\ AttributionSum(risk_attribution') = Losses(sim_profits')
       /\ mc_i' = mc_i + 1 =>
            IF Last(sim_profits') < 0
            THEN \E k \in AttributionKeys :
                    /\ Incremented(risk_attribution, risk_attribution') = {k}
                    /\ risk_attribution'[k] = risk_attribution[k] + 1
            ELSE Incremented(risk_attribution, risk_attribution') = {}]_vars

\* A trial with a profit left the counters alone and a losing trial with a
\* steep decline under a good average price was counted under 'decline'.
C1_Witness ==
    /\ mc_i = 2
    /\ sim_profits[1] >= 0
    /\ sim_profits[2] < 0
    /\ risk_attribution = [price |-> 0, decline |-> 1, combined |-> 0, other |-> 0]

\* C2: calculate_irr returns None or a rate strictly inside (-0.99, 2.0),
\* whatever the series and whichever way the loop was left.
C2_ReturnInsideBand ==
    irr_cfs # None /\ irr_ret # None =>
        band_low < Val(irr_ret) /\ Val(irr_ret) < band_high

RawCurve(b_factor, Di) ==
    <<YIELD_Y1, YIELD_Y2, YIELD_Y3>> \o tail_yields_of(b_factor, Di)

\* C3 as stated: the curve of every trial of run_monte_carlo has the raw
\* Arps tail, whatever pair (b_factor, Di) was drawn.
C3_EveryTrialRaw ==
    mc_locals # None =>
        Val(mc_locals).stressed_yields
            = RawCurve(Val(mc_locals).b_factor, Val(mc_locals).Di)

\* C3: the curve of every trial of run_monte_carlo whose drawn pair
\* (b_factor, Di) differs from the base pair has the raw Arps tail; a trial
\* that draws the base pair itself gets the calibrated curve.
C3_StressedTrialsRaw ==
    mc_locals # None =>
        IF is_base_case(Val(mc_locals).b_factor, Val(mc_locals).Di)
        THEN Val(mc_locals).stressed_yields
                 = <<YIELD_Y1, YIELD_Y2, YIELD_Y3>>
                   \o calibrated_tail(<<YIELD_Y1, YIELD_Y2, YIELD_Y3>>,
                                      tail_yields_of(base_b_factor, base_Di))
        ELSE Val(mc_locals).stressed_yields
                 = RawCurve(Val(mc_locals).b_factor, Val(mc_locals).Di)

\* A trial drew the base b-factor with the steepest initial decline and
\* its curve is the raw one, off the target sum.
C3_Witness ==
    /\ mc_locals # None
    /\ Val(mc_locals).b_factor = base_b_factor
    /\ Val(mc_locals).Di = 450000
    /\ Val(mc_locals).stressed_yields = RawCurve(base_b_factor, 450000)
    /\ SumSeq(Val(mc_locals).stressed_yields) < AVG_10Y_YIELD * 10 - TailYears

ArgOr(arg, default) == IF IsNone(arg) THEN default ELSE Val(arg)
CalledB(args) == ArgOr(args[1], base_b_factor)
CalledDi(args) == ArgOr(args[2], base_Di)
Calibrating(args) == is_base_case(CalledB(args), CalledDi(args)) \/ args[3]
TailOf(curve) == SubSeq(curve, 4, Len(curve))

\* C4: generate_hyperbolic_yield_curve rescales the tail exactly when the
\* pair is the base pair (given or defaulted) or calibrate_base is True; in
\* every other call the tail is the floored Arps values and the 10-year sum
\* is what they add up to, not the target.
C4_RescaledIffBaseOrRequested ==
    yc_args # None =>
        /\ SubSeq(yc_ret, 1, 3) = <<YIELD_Y1, YIELD_Y2, YIELD_Y3>>
        /\ Len(yc_ret) = 3 + TailYears
        /\ Calibrating(yc_args)
             <=> TailOf(yc_ret) # tail_yields_of(CalledB(yc_args), CalledDi(yc_args))
        /\ ~Calibrating(yc_args) =>
             /\ SumSeq(yc_ret) = YIELD_Y1 + YIELD_Y2 + YIELD_Y3
                    + SumSeq(tail_yields_of(CalledB(yc_args), CalledDi(yc_args)))
             /\ Abs(SumSeq(yc_ret) - AVG_10Y_YIELD * 10) > TailYears

\* A call with both parameters omitted was rescaled, and a later stressed
\* call without calibrate_base returned the raw tail.
C4_Witness ==
    /\ yc_ref # None
    /\ Val(yc_ref).args = <<None, None, FALSE>>
    /\ TailOf(Val(yc_ref).curve) # tail_yields_of(base_b_factor, base_Di)
    /\ yc_args = <<Some(500000), Some(450000), FALSE>>
    /\ TailOf(yc_ret) = tail_yields_of(500000, 450000)

\* C5: a calibrated call returns ten values that sum to AVG_10Y_YIELD * 10
\* (each of the TailYears products is rounded to one unit): the tail is
\* the raw floored tail times (target - sum of Years 1-3) / sum(raw tail),
\* and the raw tail sum is > 0, so the rescaling is not skipped.
C5_CalibratedSumIsTarget ==
    yc_args # None /\ Calibrating(yc_args) =>
        LET raw == tail_yields_of(CalledB(yc_args), CalledDi(yc_args))
            factor == FDiv(AVG_10Y_YIELD * 10 - (YIELD_Y1 + YIELD_Y2 + YIELD_Y3),
                           SumSeq(raw))
        IN  /\ SumSeq(raw) > 0
            /\ Abs(SumSeq(yc_ret) - AVG_10Y_YIELD * 10) <= TailYears
            /\ \A t \in 1..TailYears : yc_ret[3 + t] = FMul(raw[t], factor)
            /\ BASE_YIELD_SUM = Some(SumSeq(yc_ret))

\* A stressed pair was calibrated on request and its curve sums to the
\* target.
C5_Witness ==
    /\ yc_args = <<Some(500000), Some(450000), TRUE>>
    /\ Abs(SumSeq(yc_ret) - AVG_10Y_YIELD * 10) <= TailYears
    /\ TailOf(yc_ret) # tail_yields_of(500000, 450000)

\* C6: the curve a call returns depends on its (b_factor, Di,
\* calibrate_base) alone: a call with the arguments of an earlier call
\* returns the curve of that call, whatever was called in between and
\* whatever BASE_YIELD_SUM holds.
C6_CurveDependsOnArgumentsOnly ==
    yc_ref # None /\ yc_args # None
    /\ CalledB(Val(yc_ref).args) = CalledB(yc_args)
    /\ CalledDi(Val(yc_ref).args) = CalledDi(yc_args)
    /\ Val(yc_ref).args[3] = yc_args[3]
        => Val(yc_ref).curve = yc_ret

\* An uncalibrated stressed call made before any calibration was repeated
\* after one, and returned the same curve.
C6_Witness ==
    /\ yc_ref # None
    /\ Val(yc_ref).args = yc_args
    /\ ~Calibrating(yc_args)
    /\ IsNone(Val(yc_ref).before)
    /\ ~IsNone(yc_before)
    /\ Val(yc_ref).curve = yc_ret

\* C7: run_monte_carlo records in sim_irrs the value calculate_irr returned
\* whenever it is a number, and -1.0 only when it returned None, which is
\* also what run_monte_carlo_with_delay records for the same cash flows.
C7_RecordsReturnedIrr ==
    mc_locals # None =>
        /\ ~IsNone(Val(mc_locals).irr) => Last(sim_irrs) = Val(Val(mc_locals).irr)
        /\ IsNone(Val(mc_locals).irr) => Last(sim_irrs) = -Scale
        /\ Last(sim_irrs) = recorded_irr_with_delay(Val(mc_locals).irr)

\* C8: calculate_irr never raises, and returns None whenever the loop ends
\* without convergence: at the iteration cap and at the small-derivative
\* break.
C8_NoRaiseAndNoneUnlessConverged ==
    irr_cfs # None =>
        /\ irr_exit # "raise"
        /\ irr_exit \in {"cap", "break"} => IsNone(irr_ret)

\* C9: for a fixed curve and price path the IRR of the cash flows of the
\* delayed curve does not increase when the delay increases.
C9_IrrNonIncreasingInDelay ==
    dl_prev # None /\ ~IsNone(dl_irr) /\ ~IsNone(Val(dl_prev).irr) =>
        Val(dl_irr) <= Val(Val(dl_prev).irr)

\* C10: in a trial of simulate_commodity_prices every list starts at 1.0
\* and after every yearly step each commodity's price is >= 0.2: it is the
\* floored step from the price stored the year before, whatever the shocks.
C10_FloorEveryStep ==
    ps_prices # None =>
        \A c \in {"oil", "gas", "ngl"} :
            /\ Len(Val(ps_prices)[c]) = Len(ps_shocks) + 1
            /\ Val(ps_prices)[c][1] = Scale
            /\ \A t \in 1..Len(ps_shocks) :
                 /\ Val(ps_prices)[c][t + 1] >= PriceFloor
                 /\ Val(ps_prices)[c][t + 1]
                      = Max(PriceFloor,
                            ou_unfloored(c, Val(ps_prices)[c][t],
                                         corr_shocks(ps_shocks[t])[index_of(c)]))

\* Gas fell through the floor in the first year, was stored at the floor,
\* and the second year stepped on from the floor.
C10_Witness ==
    /\ ps_prices # None
    /\ Len(ps_shocks) = 2
    /\ ou_unfloored("gas", Scale, corr_shocks(ps_shocks[1])[2]) < PriceFloor
    /\ Val(ps_prices).gas[2] = PriceFloor
    /\ Val(ps_prices).gas[3]
         = ou_step("gas", PriceFloor, corr_shocks(ps_shocks[2])[2])
    /\ Val(ps_prices).gas[3] > PriceFloor

\* The cause the thresholds give a loss with this average price and b-factor.
CauseOf(avg_price, b_factor) ==
    IF avg_price < 800000 /\ b_factor >= 700000 THEN "price"
    ELSE IF b_factor < 700000 /\ avg_price >= 800000 THEN "decline"
    ELSE IF avg_price < 800000 /\ b_factor < 700000 THEN "combined"
    ELSE "other"

\* C11: a losing trial is counted under 'price' when its average price is
\* < 0.80 and b_factor >= 0.70, under 'decline' when b_factor < 0.70 and the
\* average is >= 0.80, under 'combined' when both are breached and under
\* 'other' when neither is; nothing else of the trial enters the choice.
C11_CauseByThresholds ==
    [][mc_i' = mc_i + 1 /\ Last(sim_profits') < 0 =>
          Incremented(risk_attribution, risk_attribution')
              = {CauseOf(Last(sim_prices'), Last(sim_b_factors'))}]_vars

\* A loss with the average price exactly 0.80 and b_factor exactly 0.70 was
\* counted under 'other', after a loss counted under 'combined'.
C11_Witness ==
    /\ mc_i = 2
    /\ sim_profits[2] < 0
    /\ sim_prices[2] = 800000
    /\ sim_b_factors[2] = 700000
    /\ risk_attribution = [price |-> 0, decline |-> 0, combined |-> 1, other |-> 1]

NoLosses == [price |-> 0, decline |-> 0, combined |-> 0, other |-> 0]

\* The locals of trial i computed from its own inputs alone, with the
\* module global as it is before any call.
TrialAlone(i) ==
    trial(Val(price_sims).blended_paths[i], Val(price_sims).blended_avg[i],
          decline_draw(mc_draws[i].b_factor, mc_draws[i].Di), None)

\* The counters of the trials in the set shard, each counted on its own.
ShardCount(shard, k) ==
    Cardinality({i \in shard : attribute(NoLosses, sim_profits[i], sim_prices[i],
                                         sim_b_factors[i])[k] = 1})

\* C12: what a trial records (irr, roi, profit) and what it adds to the
\* counters is a function of its own price path, average, b_factor and Di:
\* it is what the trial gives when run alone, so any order of the trials
\* gives the same entries, and the counters are the sums of the counters of
\* any two shards the trials are split into.
C12_TrialsIndependent ==
    price_sims # None =>
        /\ \A i \in 1..mc_i :
             \E t \in {TrialAlone(i)} :
                /\ sim_irrs[i] = recorded_irr(t.irr)
                /\ sim_rois[i] = t.roi
                /\ sim_profits[i] = t.profit
                /\ sim_prices[i] = t.avg_price
                /\ sim_b_factors[i] = t.b_factor
        /\ \A shard \in SUBSET (1..mc_i) : \A k \in AttributionKeys :
             risk_attribution[k]
                 = ShardCount(shard, k) + ShardCount((1..mc_i) \ shard, k)

\* The first trial drew the base pair and set the global BASE_YIELD_SUM;
\* the second, a stressed losing trial, recorded what it records alone.
C12_Witness ==
    /\ mc_i = 2
    /\ is_base_case(mc_draws[1].b_factor, mc_draws[1].Di)
    /\ ~is_base_case(mc_draws[2].b_factor, mc_draws[2].Di)
    /\ ~IsNone(yc_before)
    /\ sim_profits[2] < 0
    /\ sim_profits[2] = TrialAlone(2).profit
    /\ AttributionSum(risk_attribution) >= 1

IsPrefix(old, new) == Len(old) <= Len(new) /\ SubSeq(new, 1, Len(old)) = old

\* The five arrays hold one entry for each of the mc_i completed trials,
\* entry i of each describing trial i.
ArraysParallel ==
    /\ Len(sim_irrs) = mc_i
    /\ Len(sim_rois) = mc_i
    /\ Len(sim_profits) = mc_i
    /\ Len(sim_b_factors) = mc_i
    /\ Len(sim_prices) = mc_i
    /\ mc_i <= NumSims
    /\ \A i \in 1..mc_i :
         /\ sim_prices[i] = Val(price_sims).blended_avg[i]
         /\ sim_b_factors[i] = mc_draws[i].b_factor
         /\ sim_profits[i] = TrialAlone(i).profit
         /\ sim_rois[i] = TrialAlone(i).roi
         /\ sim_irrs[i] = recorded_irr(TrialAlone(i).irr)

C14_DrawInsidePhysicalBounds ==
    /\ \A i \in 1..Len(mc_draws) :
         /\ 300000 <= mc_draws[i].b_factor /\ mc_draws[i].b_factor <= 1200000
         /\ 100000 <= mc_draws[i].Di /\ mc_draws[i].Di <= 450000
    /\ mc_locals # None =>
         /\ yc_args = <<Some(Val(mc_locals).b_factor), Some(Val(mc_locals).Di), FALSE>>
         /\ Val(mc_locals).b_factor \in 300000..1200000
         /\ Val(mc_locals).Di \in 100000..450000
    /\ \A b_shock \in BShocks, Di_shock \in DiShocks :
         \E d \in {simulate_decline_curve_risk(TRUE, b_shock, Di_shock)} :
            /\ d.b_factor = (IF base_b_factor + b_shock < 300000 THEN 300000
                             ELSE IF base_b_factor + b_shock > 1200000 THEN 1200000
                             ELSE base_b_factor + b_shock)
            /\ d.Di = (IF base_Di + Di_shock < 100000 THEN 100000
                       ELSE IF base_Di + Di_shock > 450000 THEN 450000
                       ELSE base_Di + Di_shock)

\* One trial drew shocks that the clip cut back to the upper bound of both
\* ranges, the next shocks cut back to the lower bounds, and the curve
\* generator was called with the clipped pair.
C14_Witness ==
    /\ mc_i = 2
    /\ mc_draws[1] = [b_factor |-> 1200000, Di |-> 450000]
    /\ mc_draws[2] = [b_factor |-> 300000, Di |-> 100000]
    /\ yc_args = <<Some(300000), Some(100000), FALSE>>
    /\ base_b_factor + 360000 > 1200000
    /\ base_Di - 200000 < 100000

\* C15: build_cash_flows returns exactly 11 values whose first is
\* -CO_INVEST_MM, for every yield curve and price path and either setting of
\* include_ga.
C15_ElevenValues ==
    bc_args # None => Len(bc_ret) = 11 /\ bc_ret[1] = -CO_INVEST_MM

\* TOTAL_NAV_MM x REMAINING_RESERVES_PCT x price x multiple x CO_INVEST_SHARE
TerminalProduct(price, multiple) ==
    FMul(FMul(FMul(FMul(TOTAL_NAV_MM, REMAINING_RESERVES_PCT), price), multiple),
         CO_INVEST_SHARE)

\* C16: for 10-element inputs the flow of year t is CO_INVEST_MM x yield x
\* price of that year, less CO_INVEST_MM x GA_RATE in every year exactly
\* when include_ga is true, and the terminal value, computed from the
\* year-10 price alone, is added to year 10 and to no other year.
C16_YearlyFlows ==
    bc_args # None /\ Len(Val(bc_args)[1]) = 10 /\ Len(Val(bc_args)[2]) = 10 =>
        /\ Len(bc_ret) = 11
        /\ bc_ret[1] = -CO_INVEST_MM
        /\ \A t \in 1..10 :
             bc_ret[t + 1]
               = FMul(FMul(CO_INVEST_MM, Val(bc_args)[1][t]), Val(bc_args)[2][t])
                 - (IF Val(bc_args)[3] THEN FMul(CO_INVEST_MM, GA_RATE) ELSE 0)
                 + (IF t = 10
                    THEN TerminalProduct(Val(bc_args)[2][10],
                                         nav_multiple(Val(bc_args)[2][10]))
                    ELSE 0)

\* A ten-year call with G&A on the late-spike path: year 9, at twice the
\* strip, carries no terminal value, and year 10, at a fifth of the strip,
\* is lifted above its operating flow by the terminal value.
C16_Witness ==
    /\ bc_args # None
    /\ Len(Val(bc_args)[1]) = 10
    /\ Val(bc_args)[2] = LateSpike
    /\ Val(bc_args)[3]
    /\ bc_ret[10] = FMul(FMul(CO_INVEST_MM, Val(bc_args)[1][9]), 2 * Scale)
                    - FMul(CO_INVEST_MM, GA_RATE)
    /\ bc_ret[11] > FMul(FMul(CO_INVEST_MM, Val(bc_args)[1][10]), 200000)
    /\ FMul(CO_INVEST_MM, GA_RATE) > 0

\* The band of a price factor: 1 below 0.5, 2 from 0.5, 3 from 0.7, 4 from 0.9.
Band(p) == IF p < 500000 THEN 1 ELSE IF p < 700000 THEN 2 ELSE IF p < 900000 THEN 3 ELSE 4

\* C17: the sentiment multiple is a step function of the year-10 price
\* factor with four bands split at 0.5, 0.7 and 0.9, a threshold belonging to
\* the higher band; a higher price never gives a lower multiple or a lower
\* terminal value; the legacy schedule has the same bands and neither its
\* multiple nor its terminal value exceeds the current one.
C17_MultipleMonotone ==
    /\ tv_cur # None =>
         Val(tv_cur).nav_multiple
            = <<600000, 750000, 850000, 950000>>[Band(Val(tv_cur).price)]
    /\ tv_cur # None /\ tv_prev # None /\ Val(tv_prev).price <= Val(tv_cur).price =>
         /\ Val(tv_prev).nav_multiple <= Val(tv_cur).nav_multiple
         /\ Val(tv_prev).ret <= Val(tv_cur).ret
    /\ tv_old # None =>
         Val(tv_old).nav_multiple
            = <<300000, 500000, 700000, 900000>>[Band(Val(tv_old).price)]
    /\ tv_old # None /\ tv_cur # None /\ Val(tv_old).price = Val(tv_cur).price =>
         /\ Val(tv_old).nav_multiple <= Val(tv_cur).nav_multiple
         /\ Val(tv_old).ret <= Val(tv_cur).ret

\* A call just below the 0.7 threshold was followed by a call at the
\* threshold, which got the higher multiple and the higher value; the
\* legacy function, called at the threshold too, gave less.
C17_Witness ==
    /\ tv_prev # None /\ tv_cur # None /\ tv_old # None
    /\ Val(tv_prev).price = 699999
    /\ Val(tv_cur).price = 700000
    /\ Val(tv_prev).nav_multiple = 750000
    /\ Val(tv_cur).nav_multiple = 850000
    /\ Val(tv_prev).ret < Val(tv_cur).ret
    /\ Val(tv_old).price = 700000
    /\ Val(tv_old).ret < Val(tv_cur).ret

\* The years t >= 1 of a series at which the cumulative cash flow is >= 0.
RecoveredYears(cfs) == {t \in 1..(Len(cfs) - 1) : SumSeq(SubSeq(cfs, 1, t + 1)) >= 0}

FirstOf(ts) == CHOOSE t \in ts : \A u \in ts : t <= u

\* C18: calculate_payback returns (t - 1) + (-cumulative[t-1]) / cfs[t] for
\* the first year t >= 1 whose cumulative cash flow is >= 0, and None exactly
\* when the cumulative cash flow is negative at every year 1..n; when
\* cfs[0] < 0 the divisor is not zero and the result lies in (t - 1, t].
C18_PaybackInterpolated ==
    pb_args # None =>
        \E cfs \in {Val(pb_args)} : \E ts \in {RecoveredYears(cfs)} :
            /\ pb_ret = None <=> ts = {}
            /\ ts # {} =>
                 \E t \in {FirstOf(ts)} :
                    /\ Val(pb_ret).years = t - 1
                    /\ Val(pb_ret).num = -SumSeq(SubSeq(cfs, 1, t))
                    /\ Val(pb_ret).den = cfs[t + 1]
                    /\ cfs[1] < 0 =>
                         /\ Val(pb_ret).den # 0
                         /\ payback_years(Val(pb_ret)) > (t - 1) * Scale
                         /\ payback_years(Val(pb_ret)) <= t * Scale
                         /\ 0 < Val(pb_ret).num
                         /\ Val(pb_ret).num <= Val(pb_ret).den

\* The cumulative flow is -10 at year 3 and +5 at year 4: the payback is
\* 3 + 10/15 years.
C18_Witness ==
    /\ pb_args = Some(<<-10 * CashScale, 0, 0, 0, 15 * CashScale>>)
    /\ pb_ret # None
    /\ Val(pb_ret) = [years |-> 3, num |-> 10 * CashScale, den |-> 15 * CashScale]
    /\ payback_years(Val(pb_ret)) = 3666667

\* A series that never recovers has no payback.
C18_WitnessNever ==
    /\ pb_args = Some(<<-10 * CashScale, 5 * CashScale, 0, -5 * CashScale>>)
    /\ pb_ret = None

\* The PDP and the non-PDP part of a curve (lines 101-102).
PdpPart(base_yields) == [t \in 1..Len(base_yields) |-> FMul(base_yields[t], PDP_SHARE)]
NonPdpPart(base_yields) == [t \in 1..Len(base_yields) |-> FMul(base_yields[t], NON_PDP_SHARE)]

\* C19: delay_non_pdp_yields returns its input when delay_years <= 0 and
\* input x PDP_SHARE when delay_years >= 10; for a delay in between, every
\* year keeps its PDP part, and each of the first floor(delay_years) years
\* holds the PDP part only.
C19_DelayEdgesAndPdp ==
    ds_args # None =>
        \E base \in {ds_args[1]} : \E d \in {ds_args[2]} :
            /\ d <= 0 => ds_ret = base
            /\ d >= 10 * Scale => ds_ret = PdpPart(base)
            /\ 0 < d /\ d < 10 * Scale =>
                 /\ Len(ds_ret) = 10
                 /\ \A t \in 1..10 : ds_ret[t] >= PdpPart(base)[t]
                 /\ \A t \in 1..10 : t <= d \div Scale => ds_ret[t] = PdpPart(base)[t]

\* A delay of 2.75 years: years 1 and 2 hold PDP yield only, year 3 more.
C19_Witness ==
    /\ ds_args # None
    /\ ds_args[2] = 2750000
    /\ ds_args[1][1] = YIELD_Y1
    /\ ds_ret[1] = FMul(YIELD_Y1, PDP_SHARE)
    /\ ds_ret[2] = FMul(YIELD_Y2, PDP_SHARE)
    /\ ds_ret[3] > FMul(YIELD_Y3, PDP_SHARE)
    /\ ds_ret # ds_args[1]

\* The non-PDP yield of source year j that arrives in target year t (both
\* counted from 1) under a delay of w whole years and a fraction f.
Arrives(n, j, w, f, t) ==
    (IF t = j + w THEN FMul(n[j], Scale - f) ELSE 0)
    + (IF t = j + w + 1 THEN FMul(n[j], f) ELSE 0)

SumOver(g, lo, hi) ==
    LET acc[i \in (lo - 1)..hi] == IF i < lo THEN 0 ELSE acc[i - 1] + g[i]
    IN  acc[hi]

\* C20: for 0 < delay_years < 10 with w whole years and fraction f, source
\* year j's non-PDP yield goes to year j+w with weight 1-f and to year j+w+1
\* with weight f; the non-PDP yield delivered in the 10 years is the
\* original total less the mass shifted beyond year 10, and is not above the
\* original total (to one unit of the grid per year, the rounding of the two
\* weighted parts).
C20_DelayConservesMass ==
    ds_args # None /\ 0 < ds_args[2] /\ ds_args[2] < 10 * Scale =>
        \E n \in {NonPdpPart(ds_args[1])} :
        \E w \in {ds_args[2] \div Scale} : \E f \in {ds_args[2] % Scale} :
        \E got \in {[t \in 1..10 |-> ds_ret[t] - PdpPart(ds_args[1])[t]]} :
            /\ \A t \in 1..10 :
                   got[t] = SumOver([j \in 1..10 |-> Arrives(n, j, w, f, t)], 1, 10)
            /\ SumSeq(got)
                 = SumOver([j \in 1..10 |-> FMul(n[j], Scale - f) + FMul(n[j], f)], 1, 10)
                   - SumOver([j \in 1..10 |->
                                 (IF j + w > 10 THEN FMul(n[j], Scale - f) ELSE 0)
                                 + (IF j + w + 1 > 10 THEN FMul(n[j], f) ELSE 0)], 1, 10)
            /\ SumSeq(got) <= SumSeq(n) + 10
            /\ SumSeq(got) >= 0

\* A delay of 1.5 years of the base curve: year 3 receives half of year 1's
\* and half of year 2's non-PDP yield, and mass is lost beyond year 10.
C20_Witness ==
    /\ ds_args # None
    /\ ds_args[2] = 1500000
    /\ ds_args[1][1] = YIELD_Y1
    /\ ds_ret[3] - FMul(YIELD_Y3, PDP_SHARE)
         = FMul(FMul(YIELD_Y1, NON_PDP_SHARE), 500000)
           + FMul(FMul(YIELD_Y2, NON_PDP_SHARE), 500000)
    /\ SumSeq(ds_ret) < SumSeq(ds_args[1])

\* C21: the delayed non-PDP values are divided by the penalty factor
\* (1 + capex_inflation)^delay x (1 + opportunity_cost)^delay, which is above
\* 1 for a delay above 0: wherever shifted non-PDP volume arrives, the
\* non-PDP yield delivered is strictly smaller than that volume.
C21_PenaltyApplied ==
    ds_args # None /\ 0 < ds_args[2] /\ ds_args[2] < 10 * Scale =>
        \E n \in {NonPdpPart(ds_args[1])} :
        \E w \in {ds_args[2] \div Scale} : \E f \in {ds_args[2] % Scale} :
            \A t \in 1..10 :
                \E shifted \in {SumOver([j \in 1..10 |-> Arrives(n, j, w, f, t)], 1, 10)} :
                    shifted > 0 => ds_ret[t] - PdpPart(ds_args[1])[t] < shifted

\* C22: for sampled decline parameters generate_hyperbolic_yield_curve
\* returns exactly 10 non-negative values, Years 1-3 being the literals
\* 0.269, 0.266, 0.251 whatever the parameters and the calibration flag, and
\* every Year 4-10 value of an uncalibrated curve is >= 0.03.
C22_CurveWellFormed ==
    sc_draw # None =>
        /\ Len(sc_ret) = 10
        /\ \A t \in 1..10 : sc_ret[t] >= 0
        /\ SubSeq(sc_ret, 1, 3) = <<269000, 266000, 251000>>
        /\ ~sc_cal /\ ~is_base_case(Val(sc_draw).b_factor, Val(sc_draw).Di) =>
             \A t \in 4..10 : sc_ret[t] >= 30000

\* The steepest sampled curve, not calibrated: its Year 10 sits on the floor.
C22_Witness ==
    /\ sc_draw # None
    /\ Val(sc_draw).b_factor = 300000
    /\ Val(sc_draw).Di = 450000
    /\ ~sc_cal
    /\ sc_ret[10] = 30000
    /\ sc_ret[4] > 30000

\* A calibrated curve of stressed parameters keeps the three literals.
C22_WitnessCalibrated ==
    /\ sc_draw # None
    /\ Val(sc_draw).b_factor = 500000
    /\ sc_cal
    /\ SubSeq(sc_ret, 1, 3) = <<269000, 266000, 251000>>
    /\ SumSeq(sc_ret) \in (AVG_10Y_YIELD * 10 - 10)..(AVG_10Y_YIELD * 10 + 10)

\* C28: for every (b_factor, Di) of the simulated range the 3% floor never
\* activates: every raw Arps value of Years 4-10 is already >= 0.03.
C28_FloorNeverBinds ==
    sc_draw # None => \A t \in 1..TailYears : sc_raw[t] >= YieldFloor

\* C23: calculate_roi returns sum(cfs[1:]) / abs(cfs[0]), and run_monte_carlo
\* records for each trial the ROI and the profit (the sum of all 11 flows)
\* of that trial's own cash-flow series: the two recorded values of every
\* trial belong together, and the last ones are those of the series built
\* from the curve and the price path of the trial just run.
C23_RoiAndProfitOfTrial ==
    /\ Len(sim_rois) = mc_i
    /\ Len(sim_profits) = mc_i
    /\ \A i \in 1..mc_i :
           sim_rois[i] = FDiv(sim_profits[i] + CO_INVEST_MM, CO_INVEST_MM)
    /\ mc_i >= 1 =>
         \E cfs \in {Val(mc_locals).cfs} :
            /\ Len(cfs) = 11
            /\ cfs[1] # 0
            /\ cfs = build_cash_flows(yc_ret, Val(price_sims).blended_paths[mc_i], TRUE)
            /\ sim_rois[mc_i] = FDiv(SumSeq(SubSeq(cfs, 2, 11)), Abs(cfs[1]))
            /\ sim_profits[mc_i] = SumSeq(cfs)

\* A losing trial (ROI below 1) was followed by a winning one (ROI above 1).
C23_Witness ==
    /\ mc_i = 2
    /\ sim_profits[1] < 0
    /\ sim_rois[1] < Scale
    /\ sim_rois[1] > 0
    /\ sim_profits[2] > 0
    /\ sim_rois[2] > Scale

\* C24: calculate_irr starts from rate 0.10 and runs at most 100 Newton
\* steps; it returns the new rate at the first step whose successive
\* iterates differ by less than the tolerance (no earlier step did), it
\* does not divide by a derivative below the threshold (the rate is left as
\* it was and the loop is left), and after the 100th step it returns.
C24_NewtonBounded ==
    /\ nw_iter <= 100
    /\ nw_pc = "loop" /\ nw_iter = 0 => nw_st = [rate |-> 100000, exit |-> "run"]
    /\ nw_iter >= 1 /\ nw_st.exit = "run" => Abs(nw_st.rate - nw_prev) >= tolerance
    /\ nw_st.exit = "converged" => Abs(nw_st.rate - nw_prev) < tolerance
    /\ nw_fprime # None /\ Abs(Val(nw_fprime)) < min_derivative =>
         nw_st.exit = "break" /\ nw_st.rate = nw_prev
    /\ nw_st.exit = "break" => nw_fprime # None /\ Abs(Val(nw_fprime)) < min_derivative
    /\ nw_pc = "done" =>
         /\ nw_st.exit = "run" => nw_iter = 100
         /\ nw_st.exit = "converged" => nw_ret = Some(nw_st.rate)
         /\ nw_ret = calculate_irr(nw_cfs).ret

\* A call that converged after several steps and returned the last iterate.
C24_Witness ==
    /\ nw_pc = "done"
    /\ nw_cfs = <<-195 * CashScale, 120 * CashScale, 140 * CashScale>>
    /\ nw_st.exit = "converged"
    /\ nw_iter \in 3..20
    /\ nw_ret = Some(nw_st.rate)
    /\ nw_st.rate # 100000

\* A call whose iteration never settled: it returned after the 100th step.
C24_WitnessCap ==
    /\ nw_pc = "done"
    /\ nw_st.exit = "run"
    /\ nw_iter = 100
    /\ nw_ret # None

\* A call whose first derivative is zero: no division, the guess comes back.
C24_WitnessBreak ==
    /\ nw_pc = "done"
    /\ nw_cfs = <<0, 0, 0>>
    /\ nw_st.exit = "break"
    /\ nw_iter = 1
    /\ nw_ret = Some(100000)

\* The steps of one trial in the order the claim names them, and the k-th
\* step of a run of whole trials in index order.
TrialSteps == <<"path", "sample", "curve", "cash", "metrics", "append", "classify">>
ExpectedStep(k) == <<TrialSteps[((k - 1) % 7) + 1], ((k - 1) \div 7) + 1>>

\* C25: when no price_sims is supplied all num_sims price paths are
\* simulated before the first decline draw; then the trials run in index
\* order, each through the steps price path, decline draw, curve, cash
\* flows, metrics, appends, loss attribution, with the price path of its
\* own index and that path's average; no step of trial i+1 comes before the
\* attribution of trial i, and what a finished trial has recorded is what
\* the trial gives as a whole.
C25_TrialsInOrder ==
    \E off \in {IF st_supplied THEN 0 ELSE 1} :
        /\ Len(st_log) <= off + 7 * NumSims
        /\ \A k \in 1..Len(st_log) :
               st_log[k] = IF k <= off THEN <<"prices", 0>> ELSE ExpectedStep(k - off)
        /\ st_sims = None => st_log = <<>>
        /\ st_sims # None =>
               /\ Len(Val(st_sims).blended_paths) = NumSims
               /\ Len(Val(st_sims).blended_avg) = NumSims
        /\ st_pc \in {"sample", "curve", "cash", "metrics", "append", "classify"} =>
               /\ st_loc.price_path = Val(st_sims).blended_paths[st_i]
               /\ st_loc.avg_price = Val(st_sims).blended_avg[st_i]
               /\ st_loc.avg_price = Mean(st_loc.price_path)
               /\ Len(st_out.sim_prices) = st_i
        /\ st_log # <<>> /\ Last(st_log)[1] = "classify" =>
               \E i \in {Last(st_log)[2]} :
               \E t \in {trial(Val(st_sims).blended_paths[i], Val(st_sims).blended_avg[i],
                               decline_draw(st_loc.b_factor, st_loc.Di), None)} :
                    /\ Len(st_out.sim_irrs) = i
                    /\ Len(st_out.sim_profits) = i
                    /\ st_out.sim_prices[i] = t.avg_price
                    /\ st_out.sim_b_factors[i] = t.b_factor
                    /\ st_out.sim_irrs[i] = recorded_irr(t.irr)
                    /\ st_out.sim_rois[i] = t.roi
                    /\ st_out.sim_profits[i] = t.profit
                    /\ AttributionSum(st_out.risk_attribution) = Losses(st_out.sim_profits)

\* A run without supplied prices has returned: the prices were simulated
\* first, then every trial ran its seven steps, the last one a counted loss.
C25_Witness ==
    /\ st_pc = "done"
    /\ ~st_supplied
    /\ Len(st_log) = 1 + 7 * NumSims
    /\ st_log[1] = <<"prices", 0>>
    /\ st_log[2] = <<"path", 1>>
    /\ st_log[8] = <<"classify", 1>>
    /\ st_log[9] = <<"path", 2>>
    /\ Last(st_log) = <<"classify", NumSims>>
    /\ Last(st_out.sim_profits) < 0
    /\ AttributionSum(st_out.risk_attribution) >= 1

\* C26: the four metrics leave the series they are given unchanged;
\* build_cash_flows and delay_non_pdp_yields leave the curve and the price
\* path they are given unchanged, and for delay_years <= 0 the result is an
\* equal array that is not the input array; run_monte_carlo leaves a
\* supplied price_sims unchanged.
C26_ArgumentsUnchanged ==
    fr_fn # "none" =>
        /\ \A a \in 1..Len(fr_args) : fr_heap[fr_args[a]] = fr_before[fr_args[a]]
        /\ IsPrefix(fr_before, fr_heap)
        /\ fr_fn \in {"calculate_irr", "calculate_roi", "calculate_payback", "calculate_npv"}
             => fr_heap = fr_before /\ DOMAIN fr_ret = {"val"}
        /\ fr_fn \in {"build_cash_flows", "delay_non_pdp_yields", "run_monte_carlo"} =>
             /\ DOMAIN fr_ret = {"ref"}
             /\ \A a \in 1..Len(fr_args) : fr_ret.ref # fr_args[a]
        /\ fr_fn = "delay_non_pdp_yields" /\ fr_opts[1] <= 0 =>
             fr_heap[fr_ret.ref] = fr_before[fr_args[1]]

\* delay_non_pdp_yields was called with no delay: the result equals the
\* curve passed, which is still there, and is another object.
C26_Witness ==
    /\ fr_fn = "delay_non_pdp_yields"
    /\ fr_opts = <<0>>
    /\ fr_ret.ref # 1
    /\ fr_heap[1][1] = YIELD_Y1
    /\ fr_heap[fr_ret.ref] = fr_heap[1]

\* build_cash_flows has built the eleven flows and left curve and prices.
C26_WitnessBuild ==
    /\ fr_fn = "build_cash_flows"
    /\ Len(fr_heap) = 3
    /\ Len(fr_heap[3]) = 11
    /\ fr_heap[1] = fr_before[1]
    /\ fr_heap[2] = fr_before[2]

\* The five lists of the results.
ResultLists == {"oil", "gas", "ngl", "blended_avg", "blended_paths"}

PrefixSum(curve, k) == SumSeq(SubSeq(curve, 1, k))

\* C29: for a non-negative curve and delays 0 <= d1 <= d2, every prefix sum
\* (Years 1..k, k = 1..10) of the curve delayed by d2 is <= the same prefix
\* sum of the curve delayed by d1, across whole-year boundaries of the delay
\* and at the cut-off d >= 10 too.  Each delivered yield is a sum of three
\* products rounded to the grid of 10^-6, so the comparison is exact to within
\* three units of the grid per year summed.
C29_LongerDelayNeverEarlier ==
    lg_prev # None =>
        \A k \in 1..10 :
            PrefixSum(lg_ret, k) <= PrefixSum(Val(lg_prev).ret, k) + 3 * k

\* The delay went from half a year across the whole-year boundary to one
\* year: Year 1 lost its non-PDP yield and the ten years deliver less.
C29_Witness ==
    /\ lg_prev # None
    /\ Val(lg_prev).delay = 500000
    /\ lg_delay = Scale
    /\ Val(lg_curve)[1] = YIELD_Y1
    /\ lg_ret[1] < Val(lg_prev).ret[1]
    /\ PrefixSum(lg_ret, 2) < PrefixSum(Val(lg_prev).ret, 2)
    /\ PrefixSum(lg_ret, 10) < PrefixSum(Val(lg_prev).ret, 10)

\* The delay went from 9.5 years to the cut-off at 10.
C29_WitnessCutOff ==
    /\ lg_prev # None
    /\ Val(lg_prev).delay = 9500000
    /\ lg_delay = 10 * Scale
    /\ PrefixSum(lg_ret, 9) = PrefixSum(Val(lg_prev).ret, 9)
    /\ PrefixSum(lg_ret, 10) < PrefixSum(Val(lg_prev).ret, 10)

\* C30: BASE_YIELD_SUM is None until the first calibrated call of
\* generate_hyperbolic_yield_curve; every calibrated call sets it to the sum
\* of the curve that call returns and every uncalibrated call leaves it
\* unchanged, so get_base_yield_sum reports None or the sum of the most
\* recent calibrated curve, never the sum of an uncalibrated stressed curve.
C30_CalibrationCache ==
    /\ get_base_yield_sum = None
    /\ [][/\ Calibrating(yc_args') => get_base_yield_sum' = Some(SumSeq(yc_ret'))
          /\ ~Calibrating(yc_args') => get_base_yield_sum' = get_base_yield_sum]_vars

\* An uncalibrated stressed call came after a calibrated one: the reader
\* still reports the calibrated sum, which is not the sum of the stressed
\* curve just returned.
C30_Witness ==
    /\ yc_args # None
    /\ ~Calibrating(yc_args)
    /\ ~IsNone(yc_before)
    /\ get_base_yield_sum = yc_before
    /\ Val(get_base_yield_sum) # SumSeq(yc_ret)

\* An uncalibrated call before any calibrated one: the reader reports None.
C30_WitnessNone ==
    /\ yc_args # None
    /\ ~Calibrating(yc_args)
    /\ get_base_yield_sum = None

\* A calibrated call replaced the sum an earlier calibrated call had stored.
C30_WitnessCalibrated ==
    /\ yc_args # None
    /\ Calibrating(yc_args)
    /\ ~IsNone(yc_before)
    /\ get_base_yield_sum = Some(SumSeq(yc_ret))

=============================================================================
